---------------------------- MODULE Spec2Model ----------------------------
(***************************************************************************)
(* Flake8Lint (Sublime Text plugin): the diagnostic filtering, region      *)
(* mapping and per-view index of src/Flake8Lint.py.                        *)
(*                                                                         *)
(* Text is modelled as sequences of one-character strings; offsets are     *)
(* 0-based as in Python, so character i of a Python string s is s[i + 1].  *)
(***************************************************************************)
EXTENDS Integers, Sequences, FiniteSets, TLC

VARIABLES
    \* -- one call of LintReport.error_region (SpecRegion)
    full_line_text,    \* the line with its terminator, as view.substr(full_line)
    line_point,        \* offset of the line's first character in the buffer
    error_msg,         \* "<code> <text>"
    error_col,         \* the column the checker reported
    region,            \* what the call returned (or raised); NotCalled before
    \* -- the editor and the plugin's state (Spec, SpecPrepare)
    view_text,         \* view id -> the buffer, a sequence of characters
    view_attrs,        \* view id -> is_scratch, has file name, is python, ignored
    settings,          \* the plugin settings object (global `settings`)
    async_queue,       \* callbacks given to set_timeout_async, oldest first
    running,           \* the async_lint call between reading the buffer and
                       \* building its LintReport, or NoJob
    timers,            \* view ids with a pending erase of 'flake8lint-success'
    report,            \* view id -> the LintReport last built for the view
    view_regions,      \* view id -> region key -> regions added to the view
    view_status,       \* view id -> the 'flake8-tip' status (empty when erased)
    ERRORS_IN_VIEWS,   \* view id -> (0-based line -> list of messages)
    logged,            \* view id -> what async_lint last passed to log() for it
    \* -- the lint engine of lint.py (SpecLint)
    builtIns,          \* names lint has added to pyflakes' Checker.builtIns
    max_complexity,    \* mccabe's McCabeChecker.max_complexity (class attribute)
    calls,             \* the calls of lint so far: arguments, checkers run, result
    \* -- the external interpreter (SpecWire)
    proc,              \* the worker process: what its lint returned, its output
    external,          \* the call of lint_external: what it returned or raised
    \* -- the settings of a lint run (SpecSettings)
    conf,              \* the plugin settings file, the view's settings, config files
    loaded,            \* the attributes of `settings` after setup()
    resolved,          \* what SublimeView.view_settings returned or raised
    \* -- live mode (SpecLive)
    clock,             \* what time.time() returns
    latest_keypresses, \* Flake8LintBackground._latest_keypresses
    pending,           \* callbacks given to set_timeout by delayed_lint
    launched,          \* the callbacks that called do_lint, oldest first
    \* -- the caret and the status bar (SpecCursor)
    view_sel,          \* view id -> view.sel(): the carets' points, in order
    last_selected_line,\* Flake8LintBackground._last_selected_line
    \* -- lint on load (SpecLoad, SpecLoadFair)
    view_load,         \* view id -> is_loading(), window(), active, in views()
                       \* of the window, closed
    load_poll          \* the on_load calls: pending callback, view, outcome

regionVars == <<full_line_text, line_point, error_msg, error_col, region>>
editorVars == <<view_text, view_attrs, settings, async_queue, running, timers,
                report, view_regions, view_status, ERRORS_IN_VIEWS, logged>>
lintVars == <<builtIns, max_complexity, calls>>
wireVars == <<proc, external>>
settingsVars == <<conf, loaded, resolved>>
liveVars == <<clock, latest_keypresses, pending, launched>>
cursorVars == <<view_sel, last_selected_line>>
loadVars == <<view_load, load_poll>>
uiVars == <<cursorVars, loadVars>>
engineVars == <<lintVars, wireVars, settingsVars, liveVars, uiVars>>
vars == <<regionVars, editorVars, engineVars>>

-----------------------------------------------------------------------------
(* Bounds of the model.                                                    *)

MaxLineLen == 4       \* longest line text drawn for error_region
MaxErrors == 3        \* longest errors_list drawn for prepare_errors

-----------------------------------------------------------------------------
(* Python's str and list operations, as the code uses them.                *)

Min(a, b) == IF a < b THEN a ELSE b
Max(a, b) == IF a > b THEN a ELSE b

\* Python slice index normalisation: negative counts from the end, then clamp.
PyNorm(i, n) == IF i < 0 THEN Max(n + i, 0) ELSE Min(i, n)

\* s[i:j]
Slice(s, i, j) == SubSeq(s, PyNorm(i, Len(s)) + 1, PyNorm(j, Len(s)))
\* s[i:]
SliceFrom(s, i) == SubSeq(s, PyNorm(i, Len(s)) + 1, Len(s))
\* s[:j]
SliceTo(s, j) == SubSeq(s, 1, PyNorm(j, Len(s)))

\* s[i] raises IndexError outside -len(s) .. len(s) - 1
IndexOk(s, i) == -Len(s) <= i /\ i < Len(s)
Index(s, i) == IF i < 0 THEN s[Len(s) + i + 1] ELSE s[i + 1]

\* s[::-1]
Reversed(s) == [k \in 1..Len(s) |-> s[Len(s) + 1 - k]]

StartsWith(s, p) == Len(p) <= Len(s) /\ SubSeq(s, 1, Len(p)) = p
EndsWith(s, p) == Len(p) <= Len(s) /\ SubSeq(s, Len(s) - Len(p) + 1, Len(s)) = p

\* s.find(sub): the lowest 0-based index of sub in s, or -1
Find(s, sub) ==
    LET hits == {i \in 0..(Len(s) - Len(sub)) : SubSeq(s, i + 1, i + Len(sub)) = sub}
    IN  IF hits = {} THEN -1 ELSE CHOOSE i \in hits : \A j \in hits : i <= j

\* s.rfind(sub): the highest 0-based index of sub in s, or -1
RFind(s, sub) ==
    LET hits == {i \in 0..(Len(s) - Len(sub)) : SubSeq(s, i + 1, i + Len(sub)) = sub}
    IN  IF hits = {} THEN -1 ELSE CHOOSE i \in hits : \A j \in hits : i >= j

\* number of leading characters of s that lie in cs (itertools.takewhile)
TakeWhileLen(cs, s) ==
    LET stops == {k \in 1..Len(s) : s[k] \notin cs}
    IN  IF stops = {} THEN Len(s) ELSE (CHOOSE k \in stops : \A j \in stops : k <= j) - 1

\* s.lstrip(cs), s.rstrip(cs), s.strip(cs) for a set of characters cs
LStripSet(s, cs) == SubSeq(s, TakeWhileLen(cs, s) + 1, Len(s))
RStripSet(s, cs) == SubSeq(s, 1, Len(s) - TakeWhileLen(cs, Reversed(s)))
StripSet(s, cs) == LStripSet(RStripSet(s, cs), cs)

\* the characters str.strip() removes when called without an argument
PyWhitespace == {" ", "\t", "\n", "\r", "\f"}

LStrip(s) == LStripSet(s, PyWhitespace)
RStrip(s) == RStripSet(s, PyWhitespace)
Strip(s) == StripSet(s, PyWhitespace)

UpperLetters == <<"A","B","C","D","E","F","G","H","I","J","K","L","M",
                  "N","O","P","Q","R","S","T","U","V","W","X","Y","Z">>
LowerLetters == <<"a","b","c","d","e","f","g","h","i","j","k","l","m",
                  "n","o","p","q","r","s","t","u","v","w","x","y","z">>
Digits == <<"0","1","2","3","4","5","6","7","8","9">>

Range(s) == {s[k] : k \in 1..Len(s)}

LowerChar(c) ==
    IF c \in Range(UpperLetters)
    THEN LowerLetters[CHOOSE k \in 1..26 : UpperLetters[k] = c]
    ELSE c
\* s.lower()
Lower(s) == [k \in 1..Len(s) |-> LowerChar(s[k])]

\* s.split(sep, 1) for a one-character sep: one or two parts
Split1(s, sep) ==
    LET i == Find(s, <<sep>>)
    IN  IF i = -1 THEN <<s>> ELSE <<SliceTo(s, i), SliceFrom(s, i + 1)>>

-----------------------------------------------------------------------------
(* Python's re, for the patterns the plugin compiles.  A pattern is a tree  *)
(* of records; Ends gives the end offsets of its matches at one start       *)
(* offset in the order a backtracking matcher tries them (greedy first),    *)
(* so the head of the list is the match re returns.                         *)

Chr(c) == [t |-> "set", cs |-> {c}, neg |-> FALSE]
AnyOf(cs) == [t |-> "set", cs |-> cs, neg |-> FALSE]
NoneOf(cs) == [t |-> "set", cs |-> cs, neg |-> TRUE]
Cat(rs) == [t |-> "cat", rs |-> rs]
Alt(rs) == [t |-> "alt", rs |-> rs]
Star(r) == [t |-> "star", r |-> r]
Plus(r) == Cat(<<r, Star(r)>>)
Opt(r) == Alt(<<r, Cat(<<>>)>>)
WordBoundary == [t |-> "wb"]
\* a literal string; re.escape(pattern) makes every character literal
Lit(s) == Cat([k \in 1..Len(s) |-> Chr(s[k])])
\* a literal string under re.I
LitIgnoreCase(s) ==
    Cat([k \in 1..Len(s) |->
        AnyOf({c \in Range(UpperLetters) \cup Range(LowerLetters) \cup {s[k]} :
               LowerChar(c) = LowerChar(s[k])})])

\* \w, \s and . of a str pattern
RegexWord == Range(UpperLetters) \cup Range(LowerLetters) \cup Range(Digits) \cup {"_"}
RegexSpace == {" ", "\t", "\n", "\r", "\f"}
RegexW == AnyOf(RegexWord)
RegexS == AnyOf(RegexSpace)
RegexDot == NoneOf({"\n"})

IsWordBoundary(s, i) ==
    (i > 0 /\ s[i] \in RegexWord) # (i < Len(s) /\ s[i + 1] \in RegexWord)

RECURSIVE Ends(_, _, _), CatEnds(_, _, _), CatFrom(_, _, _)
RECURSIVE AltEnds(_, _, _), StarEnds(_, _, _), StarFrom(_, _, _)

Ends(re, s, i) ==
    CASE re.t = "set" ->
            IF i < Len(s) /\ ((s[i + 1] \in re.cs) # re.neg) THEN <<i + 1>> ELSE <<>>
      [] re.t = "wb" -> IF IsWordBoundary(s, i) THEN <<i>> ELSE <<>>
      [] re.t = "cat" -> CatEnds(re.rs, s, i)
      [] re.t = "alt" -> AltEnds(re.rs, s, i)
      [] re.t = "star" -> StarEnds(re.r, s, i)

CatEnds(rs, s, i) ==
    IF rs = <<>> THEN <<i>> ELSE CatFrom(Tail(rs), s, Ends(Head(rs), s, i))

CatFrom(rs, s, starts) ==
    IF starts = <<>> THEN <<>>
    ELSE CatEnds(rs, s, Head(starts)) \o CatFrom(rs, s, Tail(starts))

AltEnds(rs, s, i) ==
    IF rs = <<>> THEN <<>> ELSE Ends(Head(rs), s, i) \o AltEnds(Tail(rs), s, i)

StarEnds(r, s, i) ==
    StarFrom(r, s, SelectSeq(Ends(r, s, i), LAMBDA e : e > i)) \o <<i>>

StarFrom(r, s, starts) ==
    IF starts = <<>> THEN <<>>
    ELSE StarEnds(r, s, Head(starts)) \o StarFrom(r, s, Tail(starts))

NoMatch == [start |-> -1, end |-> -1]

\* re.search(pattern, s): the leftmost match, None (NoMatch) when there is none
Search(re, s) ==
    LET starts == {i \in 0..Len(s) : Ends(re, s, i) # <<>>}
    IN  IF starts = {} THEN NoMatch
        ELSE LET i == CHOOSE a \in starts : \A b \in starts : a <= b
             IN  [start |-> i, end |-> Head(Ends(re, s, i))]

-----------------------------------------------------------------------------
(* Module-level constants and helpers of Flake8Lint.py.                     *)

\* FLAKE8_NOQA = re.compile(r'flake8[:=]\s*noqa', re.I).search
FLAKE8_NOQA_RE ==
    Cat(<<LitIgnoreCase(<<"f","l","a","k","e","8">>), AnyOf({":", "="}),
          Star(RegexS), LitIgnoreCase(<<"n","o","q","a">>)>>)
\* the marker honoured only at the start of a comment
MutFLAKE8_NOQA(text) ==
    Search(Cat(<<Chr("#"), Star(RegexS), FLAKE8_NOQA_RE>>), text)
FLAKE8_NOQA(text) == Search(FLAKE8_NOQA_RE, text)

\* r'(?:[=!]=)\s*(?:None|False|True)'
COMPARE_SINGLETON_REGEX ==
    Cat(<<AnyOf({"=", "!"}), Chr("="), Star(RegexS),
          Alt(<<Lit(<<"N","o","n","e">>), Lit(<<"F","a","l","s","e">>),
                Lit(<<"T","r","u","e">>)>>)>>)

\* r'\b(?:not)\s+[^\[({ ]+\s+(?:in|is)\s'
COMPARE_NEGATIVE_REGEX ==
    Cat(<<WordBoundary, Lit(<<"n","o","t">>), Plus(RegexS),
          Plus(NoneOf({"[", "(", "{", " "})), Plus(RegexS),
          Alt(<<Lit(<<"i","n">>), Lit(<<"i","s">>)>>), RegexS>>)

\* r'(?:[=!]=|is(?:\s+not)?)\s*type(?:s.\w+Type|\s*\(\s*([^)]*[^ )])\s*\))'
COMPARE_TYPE_REGEX ==
    Cat(<<Alt(<<Cat(<<AnyOf({"=", "!"}), Chr("=")>>),
                Cat(<<Lit(<<"i","s">>),
                      Opt(Cat(<<Plus(RegexS), Lit(<<"n","o","t">>)>>))>>)>>),
          Star(RegexS), Lit(<<"t","y","p","e">>),
          Alt(<<Cat(<<Chr("s"), RegexDot, Plus(RegexW), Lit(<<"T","y","p","e">>)>>),
                Cat(<<Star(RegexS), Chr("("), Star(RegexS),
                      Star(NoneOf({")"})), NoneOf({" ", ")"}),
                      Star(RegexS), Chr(")")>>)>>)>>)

WHITESPACES == {" ", "\t"}

OPERATORS == <<
    <<"*","*","=">>, <<"/","/","=">>, <<"<","<","=">>, <<">",">","=">>,
    <<"=","=">>, <<"!","=">>, <<"<",">">>, <<">","=">>, <<"<","=">>,
    <<"*","=">>, <<"/","=">>, <<"%","=">>, <<"+","=">>, <<"-","=">>,
    <<"<","<">>, <<">",">">>, <<"&","=">>, <<"|","=">>, <<"^","=">>,
    <<"*","*">>, <<"/","/">>, <<"=">>, <<">">>, <<"<">>, <<"&">>,
    <<"|">>, <<"^">>, <<"~">>, <<"%">>, <<"*">>, <<"/">>, <<"+">>, <<"-">> >>

\* Python's None where the code returns an offset or a length, or nothing
NotFound == -1

\* isspace(symbol) is `symbol in WHITESPACES`; isname(symbol) matches [_a-zA-Z0-9]
NameChars == Range(UpperLetters) \cup Range(LowerLetters) \cup Range(Digits) \cup {"_"}

\* `for oper in OPERATORS: if ...: return len(oper)`: the length of the first
\* operator among those at the indices hits, None when there is none
FirstOperator(hits) ==
    IF hits = {} THEN NotFound
    ELSE Len(OPERATORS[CHOOSE k \in hits : \A j \in hits : k <= j])

operator_next(line, col) ==
    LET line_piece == Slice(line, col, col + Len(OPERATORS[1]))
    IN  FirstOperator({k \in 1..Len(OPERATORS) : StartsWith(line_piece, OPERATORS[k])})

operator_prev(line, col) ==
    LET line_piece == Slice(line, col - Len(OPERATORS[1]), col)
    IN  FirstOperator({k \in 1..Len(OPERATORS) : EndsWith(line_piece, OPERATORS[k])})

find_in_string(pattern, line) ==
    LET match == Search(Cat(<<WordBoundary, Lit(pattern), WordBoundary>>), line)
    IN  IF match # NoMatch THEN match.start ELSE NotFound

-----------------------------------------------------------------------------
(* LintReport.error_region                                                  *)

\* the error code letter + three digits, e.g. Code("E", 501) is "E501"
Code(letter, n) ==
    <<letter, Digits[(n \div 100) + 1], Digits[((n \div 10) % 10) + 1],
      Digits[(n % 10) + 1]>>

\* what a call gives: a (start, end) pair, or the exception it raises
Span(a, b) == [exc |-> "none", start |-> a, end |-> b]
Raised(e) == [exc |-> e, start |-> 0, end |-> 0]

\* "highlight whole line by default"
MutWholeLineTrimmed(line_text, line_point_) ==
    Span(line_point_ + Len(line_text) - Len(LStrip(line_text)),
         line_point_ + Len(RStrip(line_text)))
WholeLine(line_text, line_point_) ==
    Span(line_point_, line_point_ + Len(line_text))

\* E501: start = line_point + error_col; end = line_point + line_length
MutLineTooLong(line_text, line_point_, col) ==
    Span(line_point_ + col + 1, line_point_ + Len(line_text))
LineTooLong(line_text, line_point_, col) ==
    Span(line_point_ + col, line_point_ + Len(line_text))

\* F401, F402, F811, C901: the name quoted at offset off of the message,
\* searched in the line as a whole word
NameBySearch(error_text, off, line_text, line_point_) ==
    LET obj_len == Find(SliceFrom(error_text, off), <<"'">>)
        obj_name == Slice(error_text, off, obj_len + off)
        obj_pos == find_in_string(obj_name, line_text)
    IN  IF obj_len > 0 /\ obj_pos # NotFound /\ obj_pos # 0
        THEN Span(line_point_ + obj_pos, line_point_ + obj_pos + obj_len)
        ELSE WholeLine(line_text, line_point_)

\* F812, F821, F823, F841: the name quoted at offset off of the message,
\* expected in the line at the reported column
NameAtColumn(error_text, off, line_text, line_point_, col) ==
    LET obj_len == Find(SliceFrom(error_text, off), <<"'">>)
        obj_name == Slice(error_text, off, obj_len + off)
    IN  IF obj_len > 0 /\ Slice(line_text, col, col + obj_len) = obj_name
        THEN Span(line_point_ + col, line_point_ + col + obj_len)
        ELSE WholeLine(line_text, line_point_)

\* E231, E502, E701, E702, E703: line_text[error_col] is tested against glyphs
GlyphAtColumn(glyphs, toEnd, line_text, line_point_, col) ==
    IF ~IndexOk(line_text, col) THEN Raised("IndexError")
    ELSE IF Index(line_text, col) \in glyphs
    THEN Span(line_point_ + col,
              IF toEnd THEN line_point_ + Len(line_text) ELSE line_point_ + col + 1)
    ELSE WholeLine(line_text, line_point_)

\* E711, E712, E713, E714, E721: a regex searched in line_text[error_col:]
RegexFromColumn(re, less, line_text, line_point_, col) ==
    LET match == Search(re, SliceFrom(line_text, col))
    IN  IF match # NoMatch
        THEN Span(line_point_ + col,
                  line_point_ + col + (match.end - match.start) - less)
        ELSE WholeLine(line_text, line_point_)

IndentCodes ==
    {Code("E", n) : n \in {101, 111, 112, 113, 121, 122, 123, 124, 125, 126,
                           127, 128, 129, 131}} \cup {Code("W", 191)}
SpaceAfterCodes ==
    {Code("E", n) : n \in {201, 211, 221, 222, 223, 224, 241, 242, 251, 271,
                           272, 273, 274}}
HasKey == <<".","h","a","s","_","k","e","y","(">>
ImportStar == Cat(<<WordBoundary, Lit(<<"i","m","p","o","r","t">>), Plus(RegexS), Chr("*")>>)

\* the span the chain of `if error_code ...` branches leaves in (start, end)
OverrideSpan(error_code, error_text, full_line, line_text, lp, col) ==
    LET line_length == Len(line_text)
        whole == WholeLine(line_text, lp)
        tail == SliceFrom(line_text, col)
    IN
    CASE error_code \in IndentCodes ->
            Span(lp, lp + line_length - Len(LStrip(line_text)))
      [] error_code \in SpaceAfterCodes ->
            Span(lp + col, lp + col + TakeWhileLen(WHITESPACES, tail))
      [] error_code \in {Code("E", 202), Code("E", 203)} ->
            LET head == Reversed(SliceTo(line_text, col + 1))
            IN  Span(lp + col + 1 - TakeWhileLen(WHITESPACES, head), lp + col + 1)
      [] error_code \in {Code("E", n) : n \in 225..228} ->
            LET head == operator_next(line_text, col)
                prev == operator_prev(line_text, col)
            IN  IF head # NotFound THEN Span(lp + col, lp + col + head)
                ELSE IF prev # NotFound THEN Span(lp + col - prev, lp + col)
                ELSE whole
      [] error_code = Code("E", 231) ->
            GlyphAtColumn({",", ";", ":"}, FALSE, line_text, lp, col)
      [] error_code = Code("E", 261) ->
            LET n == TakeWhileLen(WHITESPACES, tail)
            IN  Span(lp + col, IF n = 0 THEN lp + line_length ELSE lp + col + n)
      [] error_code \in {Code("E", 262), Code("E", 265)} ->
            Span(lp + col, lp + line_length)
      [] error_code = Code("W", 291) ->
            Span(lp + Len(RStrip(line_text)), lp + line_length)
      [] error_code = Code("W", 391) ->
            Span(lp, lp + Len(full_line))
      [] error_code = Code("E", 501) -> LineTooLong(line_text, lp, col)
      [] error_code = Code("E", 502) ->
            GlyphAtColumn({"\\"}, FALSE, line_text, lp, col)
      [] error_code = Code("W", 601) ->
            IF StartsWith(tail, HasKey) THEN Span(lp + col + 1, lp + col + 1 + 7)
            ELSE whole
      [] error_code = Code("W", 603) ->
            IF StartsWith(tail, <<"<", ">">>) THEN Span(lp + col, lp + col + 2)
            ELSE whole
      [] error_code = Code("E", 701) -> GlyphAtColumn({":"}, TRUE, line_text, lp, col)
      [] error_code = Code("E", 702) -> GlyphAtColumn({";"}, TRUE, line_text, lp, col)
      [] error_code = Code("E", 703) -> GlyphAtColumn({";"}, FALSE, line_text, lp, col)
      [] error_code \in {Code("E", 711), Code("E", 712)} ->
            RegexFromColumn(COMPARE_SINGLETON_REGEX, 0, line_text, lp, col)
      [] error_code \in {Code("E", 713), Code("E", 714)} ->
            RegexFromColumn(COMPARE_NEGATIVE_REGEX, 1, line_text, lp, col)
      [] error_code = Code("E", 721) ->
            RegexFromColumn(COMPARE_TYPE_REGEX, 0, line_text, lp, col)
      [] error_code = Code("F", 401) -> NameBySearch(error_text, 1, line_text, lp)
      [] error_code = Code("F", 402) -> NameBySearch(error_text, 8, line_text, lp)
      [] error_code = Code("F", 403) ->
            LET match == Search(ImportStar, line_text)
            IN  IF match # NoMatch THEN Span(lp + match.start, lp + match.end)
                ELSE whole
      [] error_code = Code("F", 811) -> NameBySearch(error_text, 24, line_text, lp)
      [] error_code = Code("F", 812) -> NameAtColumn(error_text, 30, line_text, lp, col)
      [] error_code \in {Code("F", 821), Code("F", 823), Code("F", 841)} ->
            NameAtColumn(error_text, 16, line_text, lp, col)
      [] error_code = Code("C", 901) -> NameBySearch(error_text, 1, line_text, lp)
      [] error_code \in {Code("N", 801), Code("N", 802), Code("N", 806)} ->
            Span(lp + col, lp + col + TakeWhileLen(NameChars, tail))
      \* W292, W293, E301-E304, E401, W602, W604, F404, F810, F822, F831,
      \* N803-N805, N811-N814 `pass`; any other code runs no branch
      [] OTHER -> whole

\* if start == end: highlight the whole line
MutEmptySpanKept(span, line_text, line_point_) == span
EmptySpanFallback(span, line_text, line_point_) ==
    IF span.exc = "none" /\ span.start = span.end
    THEN WholeLine(line_text, line_point_)
    ELSE span

error_region(full_line, line_point_, error_msg_, col) ==
    LET parts == Split1(error_msg_, " ")
        line_text == RStripSet(full_line, {"\r", "\n"})
    IN  IF Len(parts) < 2 THEN Raised("ValueError")
        ELSE EmptySpanFallback(
                 OverrideSpan(parts[1], parts[2], full_line, line_text,
                              line_point_, col),
                 line_text, line_point_)

-----------------------------------------------------------------------------
(* The editor's view API, as far as the plugin uses it.                     *)

\* offsets at which a row of the buffer starts
RowStarts(text) == {0} \cup {i \in 1..Len(text) : text[i] = "\n"}
RowCount(text) == Cardinality(RowStarts(text))

\* view.text_point(row, 0); a row outside the buffer is clamped to its ends
TextPoint(text, row) ==
    IF row < 0 THEN 0
    ELSE IF row >= RowCount(text) THEN Len(text)
    ELSE CHOOSE p \in RowStarts(text) :
            Cardinality({q \in RowStarts(text) : q < p}) = row

\* view.full_line(point): the line holding point, with its terminator
FullLine(text, point) ==
    LET before == {q \in RowStarts(text) : q <= point}
        after == {q \in RowStarts(text) : q > point}
    IN  <<CHOOSE p \in before : \A q \in before : q <= p,
          IF after = {} THEN Len(text)
          ELSE CHOOSE p \in after : \A q \in after : p <= q>>

\* view.substr(region)
Substr(text, reg) == SubSeq(text, reg[1] + 1, reg[2])

-----------------------------------------------------------------------------
(* skip_line_lint and LintReport                                            *)

HashNoqa == <<"#", " ", "n", "o", "q", "a">>

\* _noqa(line): line.strip().lower().endswith('# noqa')
Noqa(line) == EndsWith(Lower(Strip(line)), HashNoqa)

skip_line_lint(line) ==
    LET i == RFind(line, <<" ", "#">>)
    IN  IF Noqa(line) THEN TRUE
        ELSE IF i > 0 THEN Noqa(SliceTo(line, i)) ELSE FALSE

\* LintReport.get_gutter_mark: '' when marks are off
GutterThemes == {"theme-alpha", "theme-bright", "theme-dark", "theme-hard",
                 "theme-simple"}
get_gutter_mark(mark_type) ==
    IF mark_type \in {"dot", "circle", "bookmark", "cross"} THEN mark_type
    ELSE IF mark_type \in GutterThemes THEN "gutter-themes/{0}.png"
    ELSE ""

Levels == {"critical", "error", "warning"}

\* the bucket of `if error_code[0] == 'F' ... elif ... 'E' ... else`
MutLevelOf(error_code) ==
    IF error_code[1] = "E" THEN "critical"
    ELSE IF error_code[1] = "F" THEN "error"
    ELSE "warning"
LevelOf(error_code) ==
    IF error_code[1] = "F" THEN "critical"
    ELSE IF error_code[1] = "E" THEN "error"
    ELSE "warning"

\* the select and ignore tests of prepare_errors: TRUE when the error is kept
MutPassesSelectIgnore(error_code, select, ignore) ==
    IF select # <<>>
    THEN \E k \in 1..Len(select) : StartsWith(error_code, select[k])
    ELSE ~(\E k \in 1..Len(ignore) : StartsWith(error_code, ignore[k]))
PassesSelectIgnore(error_code, select, ignore) ==
    /\ select # <<>> => \E k \in 1..Len(select) : StartsWith(error_code, select[k])
    /\ ignore # <<>> => ~(\E k \in 1..Len(ignore) : StartsWith(error_code, ignore[k]))

\* the line-level noqa test of prepare_errors
MutSkipLine(line_text) == EndsWith(Strip(line_text), HashNoqa)
SkipLine(line_text) == skip_line_lint(line_text)

\* view_errors.setdefault(error_line, []).append(error_text)
MutIndexAdd(view_errors, error_line, error_text) ==
    IF error_line \in DOMAIN view_errors
    THEN [view_errors EXCEPT ![error_line] = <<error_text>>]
    ELSE view_errors @@ (error_line :> <<error_text>>)
IndexAdd(view_errors, error_line, error_text) ==
    IF error_line \in DOMAIN view_errors
    THEN [view_errors EXCEPT ![error_line] = Append(@, error_text)]
    ELSE view_errors @@ (error_line :> <<error_text>>)

\* the local state of prepare_errors before its loop
PrepareStart ==
    [exc |-> "none",
     errors_shown |-> {},
     errors_list_filtered |-> <<>>,
     errors_to_show |-> <<>>,
     regions |-> [l \in Levels |-> <<>>],
     view_errors |-> <<>>]

\* one pass of `for error in errors_list`
PrepareStep(acc, error, text, rep, hl_type) ==
    LET shown == [acc EXCEPT !.errors_shown = @ \cup {error}]
        error_line == error[1] - 1
        error_col_ == error[2]
        error_text == error[3]
        line_point_ == TextPoint(text, error_line)
        full_line == Substr(text, FullLine(text, line_point_))
        line_text == RStripSet(full_line, {"\r", "\n"})
        parts == Split1(error_text, " ")
        error_code == parts[1]
        span == IF hl_type = "line"
                THEN Span(line_point_, line_point_ + Len(line_text))
                ELSE error_region(full_line, line_point_, error_text, error_col_)
        kept == [shown EXCEPT
                    !.errors_list_filtered = Append(@, error),
                    !.errors_to_show =
                        Append(@, [text |-> error_text, line |-> error_line + 1,
                                   source |-> Strip(line_text)])]
        indexed(a) == [a EXCEPT !.view_errors = IndexAdd(@, error_line, error_text)]
    IN  IF SkipLine(line_text) THEN shown
        ELSE IF Len(parts) < 2 THEN [shown EXCEPT !.exc = "ValueError"]
        ELSE IF ~PassesSelectIgnore(error_code, rep.select, rep.ignore) THEN shown
        ELSE IF ~(rep.is_highlight \/ rep.gutter_mark # "") THEN indexed(kept)
        ELSE IF span.exc # "none" THEN [kept EXCEPT !.exc = span.exc]
        ELSE IF error_code = <<>> THEN [kept EXCEPT !.exc = "IndexError"]
        ELSE indexed([kept EXCEPT
                        !.regions[LevelOf(error_code)] =
                            Append(@, <<span.start, span.end>>)])

RECURSIVE PrepareLoop(_, _, _, _, _)
PrepareLoop(acc, errors, text, rep, hl_type) ==
    IF errors = <<>> \/ acc.exc # "none" THEN acc
    ELSE PrepareLoop(PrepareStep(acc, Head(errors), text, rep, hl_type),
                     Tail(errors), text, rep, hl_type)

\* LintReport.prepare_settings
prepare_settings(view_settings, plugin) ==
    [select |-> view_settings.select,
     ignore |-> view_settings.ignore,
     is_highlight |-> plugin.highlight,
     is_popup |-> plugin.popup,
     gutter_mark |-> get_gutter_mark(plugin.gutter_marks)]

\* LintReport.prepare_errors: the local state its loop ends with
prepare_errors(errors_list, text, rep, plugin) ==
    PrepareLoop(PrepareStart, errors_list, text, rep, plugin.highlight_type)

-----------------------------------------------------------------------------
(* Flake8Lint.cleanup, LintReport.__init__, and the actions of the editor.  *)

Views == {1, 2}
RegionKeys == Levels \cup {"success"}
NoRegions == [k \in RegionKeys |-> <<>>]
NoJob == [phase |-> "none"]
NoReport == [state |-> "none"]
\* async_lint's log lines that tell how a run went
LogSkipFile == "skip file: 'noqa' is set"
LogErrorsFound == "lint errors found"

\* Flake8Lint.cleanup(view): erase the four region keys and the status
MutCleanup(v, regs, status) == [regions |-> regs, status |-> status]
Cleanup(v, regs, status) ==
    [regions |-> [regs EXCEPT ![v] = NoRegions],
     status |-> [status EXCEPT ![v] = <<>>]]

\* view.lines(Region(0, view.size())): one region per row, terminator excluded
ViewLines(text) ==
    LET starts == RowStarts(text)
        row(k) == TextPoint(text, k - 1)
        full(k) == FullLine(text, row(k))
    IN  [k \in 1..RowCount(text) |->
            <<row(k), row(k) + Len(RStripSet(Substr(text, full(k)), {"\n"}))>>]

\* show_errors: add_regions for every level that has regions
ShowErrors(v, regs, rep, acc) ==
    IF rep.is_highlight \/ rep.gutter_mark # ""
    THEN [regs EXCEPT ![v] =
            [k \in RegionKeys |->
                IF k \in Levels /\ acc.regions[k] # <<>> THEN acc.regions[k]
                ELSE @[k]]]
    ELSE regs

\* report_success: blink the gutter marks of every line
ReportSuccess(v, regs, text, quiet, plugin) ==
    IF ~quiet /\ plugin.blink_gutter_marks_on_success
    THEN [regs EXCEPT ![v]["success"] = ViewLines(text)]
    ELSE regs

(* An edit of the buffer on the main thread.                               *)
Modify(v, text) ==
    /\ view_text[v] # text
    /\ view_text' = [view_text EXCEPT ![v] = text]
    /\ UNCHANGED <<view_attrs, settings, async_queue, running, timers, report,
                   view_regions, view_status, ERRORS_IN_VIEWS, logged>>
    /\ UNCHANGED <<regionVars, engineVars>>

(* Flake8Lint.do_lint(view, quiet): skip and clean up, or hand async_lint   *)
(* to set_timeout_async.                                                    *)
do_lint(v, view_settings, quiet, maxQueue) ==
    LET a == view_attrs[v]
        clean == Cleanup(v, view_regions, view_status)
    IN  /\ Len(async_queue) < maxQueue
        /\ IF a.is_scratch \/ ~a.has_file_name \/ ~a.is_python \/ a.ignored
           THEN /\ view_regions' = clean.regions
                /\ view_status' = clean.status
                /\ UNCHANGED async_queue
           ELSE /\ async_queue' = Append(async_queue,
                        [view |-> v, view_settings |-> view_settings,
                         quiet |-> quiet])
                /\ UNCHANGED <<view_regions, view_status>>
        /\ UNCHANGED <<view_text, view_attrs, settings, running, timers, report,
                       ERRORS_IN_VIEWS, logged>>

\* do_lint called from a command or from on_post_save
DoLint(v, view_settings, quiet, maxQueue) ==
    /\ do_lint(v, view_settings, quiet, maxQueue)
    /\ UNCHANGED <<regionVars, engineVars>>

(* Flake8Lint.async_lint up to the checker's return: read the buffer, stop  *)
(* on the whole-file noqa marker, else run lint or lint_external, whose     *)
(* result is one of `results`.                                              *)
AsyncLintStart(results) ==
    /\ running = NoJob
    /\ async_queue # <<>>
    /\ LET job == Head(async_queue)
           lines == view_text[job.view]
           interpreter == job.view_settings.python_interpreter
           clean == Cleanup(job.view, view_regions, view_status)
       IN  /\ async_queue' = Tail(async_queue)
           /\ IF FLAKE8_NOQA(lines) # NoMatch
              THEN /\ logged' = [logged EXCEPT ![job.view] = LogSkipFile]
                   /\ view_regions' = clean.regions
                   /\ view_status' = clean.status
                   /\ UNCHANGED running
              ELSE /\ \E errors_list \in results :
                        running' = [phase |-> "linted",
                                    view |-> job.view,
                                    view_settings |-> job.view_settings,
                                    quiet |-> job.quiet,
                                    lines |-> lines,
                                    checker |-> IF interpreter \in {"", "internal"}
                                                THEN "lint" ELSE "lint_external",
                                    errors_list |-> errors_list]
                   /\ logged' = [logged EXCEPT ![job.view] = LogErrorsFound]
                   /\ UNCHANGED <<view_regions, view_status>>
    /\ UNCHANGED <<view_text, view_attrs, settings, timers, report, ERRORS_IN_VIEWS>>
    /\ UNCHANGED <<regionVars, engineVars>>

(* Flake8Lint.async_lint from the checker's return: cleanup, then           *)
(* LintReport(view, errors_list, view_settings, quiet).                     *)
AsyncLintFinish ==
    /\ running # NoJob
    /\ \E acc \in {prepare_errors(running.errors_list, view_text[running.view],
                                  prepare_settings(running.view_settings, settings),
                                  settings)} :
       LET v == running.view
           clean == Cleanup(v, view_regions, view_status)
           rep == prepare_settings(running.view_settings, settings)
           built == [state |-> IF acc.exc = "none" THEN "built" ELSE "raised",
                     exc |-> acc.exc,
                     args |-> running.errors_list,
                     lines |-> running.lines,
                     text |-> view_text[v],
                     quiet |-> running.quiet,
                     select |-> rep.select,
                     ignore |-> rep.ignore,
                     is_highlight |-> rep.is_highlight,
                     is_popup |-> rep.is_popup,
                     gutter_mark |-> rep.gutter_mark,
                     highlight_type |-> settings.highlight_type,
                     errors_list |-> IF acc.exc = "none"
                                     THEN acc.errors_list_filtered
                                     ELSE running.errors_list,
                     errors_to_show |-> acc.errors_to_show,
                     regions |-> acc.regions,
                     panel |-> acc.exc = "none" /\ acc.errors_list_filtered # <<>>
                               /\ rep.is_popup /\ ~running.quiet]
       IN  /\ running' = NoJob
           /\ report' = [report EXCEPT ![v] = built]
           /\ view_status' = clean.status
           /\ IF acc.exc # "none"
              THEN /\ view_regions' = clean.regions
                   /\ UNCHANGED <<ERRORS_IN_VIEWS, timers>>
              ELSE /\ ERRORS_IN_VIEWS' = (v :> acc.view_errors) @@ ERRORS_IN_VIEWS
                   /\ IF acc.errors_list_filtered # <<>>
                      THEN /\ view_regions' = ShowErrors(v, clean.regions, rep, acc)
                           /\ UNCHANGED timers
                      ELSE /\ view_regions' =
                                ReportSuccess(v, clean.regions, view_text[v],
                                              running.quiet, settings)
                           /\ timers' =
                                IF ~running.quiet /\ settings.blink_gutter_marks_on_success
                                THEN timers \cup {v} ELSE timers
    /\ UNCHANGED <<view_text, view_attrs, settings, async_queue, logged>>
    /\ UNCHANGED <<regionVars, engineVars>>

(* The timeout of report_success: view.erase_regions('flake8lint-success'). *)
EraseSuccess(v) ==
    /\ v \in timers
    /\ timers' = timers \ {v}
    /\ view_regions' = [view_regions EXCEPT ![v]["success"] = <<>>]
    /\ UNCHANGED <<view_text, view_attrs, settings, async_queue, running, report,
                   view_status, ERRORS_IN_VIEWS, logged>>
    /\ UNCHANGED <<regionVars, engineVars>>

\* lint.py as imported: nothing added to the checkers' class attributes
LintIdle ==
    /\ builtIns = {}
    /\ max_complexity = -1
    /\ calls = <<>>

\* no worker process was started and lint_external was not called
NoProcess ==
    [state |-> "none", warnings |-> <<>>, stdout |-> <<>>, returncode |-> 0,
     fault |-> "none"]
NotRun ==
    [state |-> "none", exc |-> "none", warnings |-> <<>>, console |-> <<>>,
     shown |-> "nothing"]

WireIdle ==
    /\ proc = NoProcess
    /\ external = NotRun

\* the settings were not read yet
NotLoaded == [state |-> "none"]
NotResolved ==
    [state |-> "none", exc |-> "none", flake8_config |-> <<>>, result |-> <<>>]
SettingsIdle ==
    /\ conf = [plugin |-> <<>>, project |-> <<>>,
               files |-> [global |-> <<>>, project |-> <<>>]]
    /\ loaded = NotLoaded
    /\ resolved = NotResolved

\* live mode: nothing was typed yet
LiveIdle ==
    /\ clock = 0
    /\ latest_keypresses = <<>>
    /\ pending = <<>>
    /\ launched = <<>>

\* the values the code hands to int(): an int, a str or None
PyIntVal(n) == [t |-> "int", v |-> n]
PyStrVal(s) == [t |-> "str", v |-> s]
PyNone == [t |-> "none", v |-> 0]

\* a loaded view in its window's list of views; the view that has the focus
ViewLoaded(is_active) ==
    [loading |-> FALSE, window |-> TRUE, active |-> is_active,
     listed |-> TRUE, closed |-> FALSE]
\* no on_load event was handled
NotPolled == [phase |-> "none", view |-> 0, timer |-> 0]
\* on_load, on_selection_modified and the commands were not called
UiIdle ==
    /\ view_sel = [v \in Views |-> <<0>>]
    /\ last_selected_line = PyNone
    /\ view_load = [v \in Views |-> ViewLoaded(v = 1)]
    /\ load_poll = [t \in Views \cup {0} |-> NotPolled]

\* the state of the parts a specification does not exercise
EngineIdle == LintIdle /\ WireIdle /\ SettingsIdle /\ LiveIdle /\ UiIdle

\* the editor's state while only error_region is exercised
EditorIdle ==
    /\ view_text = [v \in Views |-> <<>>]
    /\ view_attrs = [v \in Views |->
            [is_scratch |-> FALSE, has_file_name |-> TRUE, is_python |-> TRUE,
             ignored |-> FALSE]]
    /\ settings = [highlight |-> TRUE, highlight_type |-> "error",
                   gutter_marks |-> "theme-simple", popup |-> TRUE,
                   blink_gutter_marks_on_success |-> TRUE]
    /\ async_queue = <<>>
    /\ running = NoJob
    /\ timers = {}
    /\ report = [v \in Views |-> NoReport]
    /\ view_regions = [v \in Views |-> NoRegions]
    /\ view_status = [v \in Views |-> <<>>]
    /\ ERRORS_IN_VIEWS = <<>>
    /\ logged = [v \in Views |-> ""]

-----------------------------------------------------------------------------
(* Messages as the checkers word them (pep8, pep257, pyflakes through       *)
(* flake8's patch, mccabe).                                                 *)

\* E501 line too long (4 > 2 characters)
Msg_E501 ==
    <<"E","5","0","1"," ","l","i","n","e"," ","t","o","o"," ","l","o","n","g",
      " ","(","4"," ",">"," ","2"," ","c","h","a","r","a","c","t","e","r","s",
      ")">>
\* E262 inline comment should start with '# '
Msg_E262 ==
    <<"E","2","6","2"," ","i","n","l","i","n","e"," ","c","o","m","m","e","n",
      "t"," ","s","h","o","u","l","d"," ","s","t","a","r","t"," ","w","i","t",
      "h"," ","'","#"," ","'">>
\* E401 multiple imports on one line
Msg_E401 ==
    <<"E","4","0","1"," ","m","u","l","t","i","p","l","e"," ","i","m","p","o",
      "r","t","s"," ","o","n"," ","o","n","e"," ","l","i","n","e">>
\* E201 whitespace after '('
Msg_E201 ==
    <<"E","2","0","1"," ","w","h","i","t","e","s","p","a","c","e"," ","a","f",
      "t","e","r"," ","'","(","'">>
\* E202 whitespace before ')'
Msg_E202 ==
    <<"E","2","0","2"," ","w","h","i","t","e","s","p","a","c","e"," ","b","e",
      "f","o","r","e"," ","'",")","'">>
\* W291 trailing whitespace
Msg_W291 ==
    <<"W","2","9","1"," ","t","r","a","i","l","i","n","g"," ","w","h","i","t",
      "e","s","p","a","c","e">>
\* D100: Missing docstring in public module
Msg_D100 ==
    <<"D","1","0","0",":"," ","M","i","s","s","i","n","g"," ","d","o","c","s",
      "t","r","i","n","g"," ","i","n"," ","p","u","b","l","i","c"," ","m","o",
      "d","u","l","e">>
\* the message lint falls back to for a pep257 error without one
Msg_Empty == <<>>
\* F401 'o' imported but unused
Msg_F401_o ==
    <<"F","4","0","1"," ","'","o","'"," ","i","m","p","o","r","t","e","d"," ",
      "b","u","t"," ","u","n","u","s","e","d">>
\* F401 'oo' imported but unused
Msg_F401_oo ==
    <<"F","4","0","1"," ","'","o","o","'"," ","i","m","p","o","r","t","e","d",
      " ","b","u","t"," ","u","n","u","s","e","d">>
\* F402 import 'o' from line 1 shadowed by loop variable
Msg_F402_o ==
    <<"F","4","0","2"," ","i","m","p","o","r","t"," ","'","o","'"," ","f","r",
      "o","m"," ","l","i","n","e"," ","1"," ","s","h","a","d","o","w","e","d",
      " ","b","y"," ","l","o","o","p"," ","v","a","r","i","a","b","l","e">>
\* F811 redefinition of unused 'o' from line 1
Msg_F811_o ==
    <<"F","8","1","1"," ","r","e","d","e","f","i","n","i","t","i","o","n"," ",
      "o","f"," ","u","n","u","s","e","d"," ","'","o","'"," ","f","r","o","m",
      " ","l","i","n","e"," ","1">>
\* C901 'o' is too complex (12)
Msg_C901_o ==
    <<"C","9","0","1"," ","'","o","'"," ","i","s"," ","t","o","o"," ","c","o",
      "m","p","l","e","x"," ","(","1","2",")">>
\* F401 'os' imported but unused
Msg_F401_os ==
    <<"F","4","0","1"," ","'","o","s","'"," ","i","m","p","o","r","t","e","d",
      " ","b","u","t"," ","u","n","u","s","e","d">>
\* E111 indentation is not a multiple of four
Msg_E111 ==
    <<"E","1","1","1"," ","i","n","d","e","n","t","a","t","i","o","n"," ","i",
      "s"," ","n","o","t"," ","a"," ","m","u","l","t","i","p","l","e"," ","o",
      "f"," ","f","o","u","r">>
\* E225 missing whitespace around operator
Msg_E225 ==
    <<"E","2","2","5"," ","m","i","s","s","i","n","g"," ","w","h","i","t","e",
      "s","p","a","c","e"," ","a","r","o","u","n","d"," ","o","p","e","r","a",
      "t","o","r">>
\* E231 missing whitespace after ','
Msg_E231 ==
    <<"E","2","3","1"," ","m","i","s","s","i","n","g"," ","w","h","i","t","e",
      "s","p","a","c","e"," ","a","f","t","e","r"," ","'",",","'">>
\* C901 'f' is too complex (12)
Msg_C901_f ==
    <<"C","9","0","1"," ","'","f","'"," ","i","s"," ","t","o","o"," ","c","o",
      "m","p","l","e","x"," ","(","1","2",")">>

-----------------------------------------------------------------------------
(* SpecRegion: error_region applied to one diagnostic and one line.         *)

NotCalled == [exc |-> "not called", start |-> 0, end |-> 0]
SeqsUpTo(A, n) == UNION {[1..k -> A] : k \in 0..n}

\* a blank, a name character and a character that is neither
RegionAlphabet == {" ", "o", "."}
RegionLineTexts == SeqsUpTo(RegionAlphabet, MaxLineLen)
\* the last line of a buffer has no terminator
LineTerminators == {<<>>, <<"\n">>}
RegionMessages ==
    {Msg_E501, Msg_E262, Msg_E401, Msg_E201, Msg_E202, Msg_W291, Msg_D100,
     Msg_F401_o, Msg_F401_oo, Msg_F402_o, Msg_F811_o, Msg_C901_o}
RegionColumns == 0..(MaxLineLen + 1)
RegionLinePoints == {0, 7}

InitRegion ==
    /\ full_line_text \in {t \o nl : t \in RegionLineTexts, nl \in LineTerminators}
    /\ line_point \in RegionLinePoints
    /\ error_msg \in RegionMessages
    /\ error_col \in RegionColumns
    /\ region = NotCalled
    /\ EditorIdle
    /\ EngineIdle

CallErrorRegion ==
    /\ region = NotCalled
    /\ region' = error_region(full_line_text, line_point, error_msg, error_col)
    /\ UNCHANGED <<full_line_text, line_point, error_msg, error_col>>
    /\ UNCHANGED <<editorVars, engineVars>>

NextRegion == CallErrorRegion

SpecRegion == InitRegion /\ [][NextRegion]_vars

-----------------------------------------------------------------------------
(* Claims about error_region, checked under SpecRegion.                     *)

Called == region # NotCalled
Returned == Called /\ region.exc = "none"
\* the parts of the call's arguments the claims speak of
ArgCode == Split1(error_msg, " ")[1]
ArgText == Split1(error_msg, " ")[2]
ArgLine == RStripSet(full_line_text, {"\r", "\n"})
ArgLength == Len(ArgLine)

\* the codes error_region has a branch for that assigns start or end
CodesWithOverride ==
    IndentCodes \cup SpaceAfterCodes
    \cup {Code("E", n) : n \in {202, 203, 225, 226, 227, 228, 231, 261, 262,
                                265, 501, 502, 701, 702, 703, 711, 712, 713,
                                714, 721}}
    \cup {Code("W", n) : n \in {291, 391, 601, 603}}
    \cup {Code("F", n) : n \in {401, 402, 403, 811, 812, 821, 823, 841}}
    \cup {Code("C", 901), Code("N", 801), Code("N", 802), Code("N", 806)}

ArgOverride ==
    OverrideSpan(ArgCode, ArgText, full_line_text, ArgLine, line_point, error_col)
\* the case of the fallback law: no override, or an override of length zero
FallbackCase ==
    \/ ArgCode \notin CodesWithOverride
    \/ ArgOverride.exc = "none" /\ ArgOverride.start = ArgOverride.end

C6_RegionWithinLine ==
    Returned =>
        /\ region.start <= region.end
        /\ line_point <= region.start
        /\ region.end <= line_point + Len(full_line_text)

\* C6 failing input: E501 reported at column 3 of the one-character line 'o'
C6_Witness ==
    /\ Returned
    /\ ArgCode = Code("E", 501)
    /\ full_line_text = <<"o", "\n">> /\ line_point = 0 /\ error_col = 3
    /\ region = Span(3, 1)

\* C7: E501 at column c < L on a line of length L gives [c, L) from the
\* start of the line.
C7_LineTooLongTail ==
    (Called /\ ArgCode = Code("E", 501) /\ error_col < ArgLength) =>
        region = Span(line_point + error_col, line_point + ArgLength)

C7_Witness ==
    /\ Called /\ ArgCode = Code("E", 501)
    /\ 0 < error_col /\ error_col + 1 < ArgLength
    /\ region = Span(line_point + error_col, line_point + ArgLength)

\* name occurs in line at 0-based offset pos as a whole word
WholeWordAt(name, line, pos) ==
    /\ pos + Len(name) <= Len(line)
    /\ SubSeq(line, pos + 1, pos + Len(name)) = name
    /\ pos = 0 \/ line[pos] \notin NameChars
    /\ pos + Len(name) = Len(line) \/ line[pos + Len(name) + 1] \notin NameChars
\* the name a message quotes after its first apostrophe
QuotedName(text) ==
    LET open == Find(text, <<"'">>)
        rest == SliceFrom(text, open + 1)
    IN  SliceTo(rest, Find(rest, <<"'">>))

\* C8 as stated: for F401, F402, F811 and C901, when the quoted name occurs in
\* the line as a whole word, the region is exactly its first such occurrence.
C8_NameSpan ==
    (Called /\ ArgCode \in {Code("F", 401), Code("F", 402), Code("F", 811),
                            Code("C", 901)}) =>
        \A pos \in 0..ArgLength :
            (/\ WholeWordAt(QuotedName(ArgText), ArgLine, pos)
             /\ \A q \in 0..(pos - 1) : ~WholeWordAt(QuotedName(ArgText), ArgLine, q))
            => region = Span(line_point + pos,
                             line_point + pos + Len(QuotedName(ArgText)))

\* C8 failing input: F401 for 'o' on the line 'o.', the name at offset 0
C8_Witness ==
    /\ Returned
    /\ error_msg = Msg_F401_o
    /\ full_line_text = <<"o", ".", "\n">> /\ line_point = 0 /\ error_col = 0
    /\ WholeWordAt(QuotedName(ArgText), ArgLine, 0)
    /\ region = Span(0, 2)

-----------------------------------------------------------------------------
(* Buffers and diagnostics the specifications draw from.                    *)

\* import os\nx=1  # noqa\n
Buf_NoqaLine2 ==
    <<"i","m","p","o","r","t"," ","o","s","\n","x","=","1"," "," ","#"," ",
      "n","o","q","a","\n">>
\* import os\n  def f(): pass  \n
Buf_Plain ==
    <<"i","m","p","o","r","t"," ","o","s","\n"," "," ","d","e","f"," ","f",
      "(",")",":"," ","p","a","s","s"," "," ","\n">>
\* import os  # foo  # NOQA\nx = 1\n
Buf_NoqaAfterComment ==
    <<"i","m","p","o","r","t"," ","o","s"," "," ","#"," ","f","o","o"," "," ",
      "#"," ","N","O","Q","A","\n","x"," ","="," ","1","\n">>
\* x=1 # noqa # foo\nx=1 #noqa
Buf_NoqaBeforeComment ==
    <<"x","=","1"," ","#"," ","n","o","q","a"," ","#"," ","f","o","o","\n",
      "x","=","1"," ","#","n","o","q","a">>
\* # flake8: noqa\nimport os\n
Buf_FileNoqa ==
    <<"#"," ","f","l","a","k","e","8",":"," ","n","o","q","a","\n","i","m",
      "p","o","r","t"," ","o","s","\n">>
\* x = 'FLAKE8=NOQA'\n
Buf_FileNoqaInCode ==
    <<"x"," ","="," ","'","F","L","A","K","E","8","=","N","O","Q","A","'",
      "\n">>
\* import os\n#flake8:\t noqa
Buf_FileNoqaTab ==
    <<"i","m","p","o","r","t"," ","o","s","\n","#","f","l","a","k","e","8",
      ":","\t"," ","n","o","q","a">>
\* # flake8 noqa\nimport os\n
Buf_NoFileNoqa ==
    <<"#"," ","f","l","a","k","e","8"," ","n","o","q","a","\n","i","m","p",
      "o","r","t"," ","o","s","\n">>

\* lint sorts by '{0:09d}{1:09d}'.format(line, column): as numbers, for the
\* lines and columns drawn here
KeyLess(e, f) == e[1] < f[1] \/ (e[1] = f[1] /\ e[2] < f[2])
IsSortedByKey(errors) ==
    \A i \in 1..(Len(errors) - 1) : ~KeyLess(errors[i + 1], errors[i])

PrepareBuffers ==
    {Buf_NoqaLine2, Buf_Plain, Buf_NoqaAfterComment, Buf_NoqaBeforeComment}
\* diagnostics on rows 1 and 2; the E231 column lies past the end of
\* 'import os', and one message has no code/text separator
PrepareDiagnostics ==
    {<<1, 0, Msg_F401_os>>, <<1, 2, Msg_E501>>, <<1, 9, Msg_E231>>,
     <<2, 0, Msg_E111>>, <<2, 0, Msg_C901_f>>, <<2, 2, Msg_E501>>,
     <<2, 3, Msg_W291>>, <<2, 4, Msg_Empty>>}
PrepareErrorLists ==
    {errors \in SeqsUpTo(PrepareDiagnostics, MaxErrors) : IsSortedByKey(errors)}
\* pairs of "select" and "ignore" view settings
SelectIgnoreChoices ==
    {<<<<>>, <<>>>>,
     <<<<>>, <<Code("E", 501)>>>>,
     <<<<<<"E">>>>, <<Code("E", 501)>>>>,
     <<<<<<"E", "5">>, <<"F">>>>, <<>>>>,
     <<<<<<"E">>>>, <<<<"C">>, <<"E", "1">>>>>>}
PluginSettings ==
    {[highlight |-> hl[1], highlight_type |-> hl[2], gutter_marks |-> hl[3],
      popup |-> TRUE, blink_gutter_marks_on_success |-> TRUE] :
        hl \in {<<FALSE, "error", "">>, <<TRUE, "line", "">>,
                <<FALSE, "error", "theme-simple">>,
                <<TRUE, "error", "theme-simple">>}}

-----------------------------------------------------------------------------
(* SpecPrepare: one LintReport built from a checker's result.  The state    *)
(* starts where async_lint has the checker's result for view 1 in hand.     *)

InitPrepare ==
    /\ \E text \in PrepareBuffers :
        /\ view_text = [v \in Views |-> IF v = 1 THEN text ELSE <<>>]
        /\ \E errors_list \in PrepareErrorLists, si \in SelectIgnoreChoices,
              quiet \in BOOLEAN :
              running = [phase |-> "linted",
                         view |-> 1,
                         view_settings |-> [select |-> si[1], ignore |-> si[2],
                                            python_interpreter |-> "internal"],
                         quiet |-> quiet,
                         lines |-> text,
                         checker |-> "lint",
                         errors_list |-> errors_list]
    /\ view_attrs = [v \in Views |->
            [is_scratch |-> FALSE, has_file_name |-> TRUE, is_python |-> TRUE,
             ignored |-> FALSE]]
    /\ settings \in PluginSettings
    /\ async_queue = <<>>
    /\ timers = {}
    /\ report = [v \in Views |-> NoReport]
    /\ view_regions = [v \in Views |-> NoRegions]
    /\ view_status = [v \in Views |-> <<>>]
    /\ ERRORS_IN_VIEWS = <<>>
    /\ logged = [v \in Views |-> IF v = 1 THEN LogErrorsFound ELSE ""]
    /\ full_line_text = <<>>
    /\ line_point = 0
    /\ error_msg = Msg_E501
    /\ error_col = 0
    /\ region = NotCalled
    /\ EngineIdle

NextPrepare ==
    \/ AsyncLintFinish
    \/ \E v \in Views : EraseSuccess(v)

SpecPrepare == InitPrepare /\ [][NextPrepare]_vars

-----------------------------------------------------------------------------
(* Claims about prepare_errors, checked under SpecPrepare.                  *)

\* the LintReport of view 1, once its constructor has returned
Rep == report[1]
Built == Rep.state = "built"
Highlighting == Rep.is_highlight \/ Rep.gutter_mark # ""

DiagLine(e) == e[1]
DiagText(e) == e[3]
DiagCode(e) == Split1(e[3], " ")[1]
\* row n (1-based) of a buffer, without its terminator
RowText(text, n) ==
    RStripSet(Substr(text, FullLine(text, TextPoint(text, n - 1))), {"\r", "\n"})
Count(seq, Test(_)) == Cardinality({k \in 1..Len(seq) : Test(seq[k])})
RegionCount == Len(Rep.regions["critical"]) + Len(Rep.regions["error"])
               + Len(Rep.regions["warning"])

\* the select/ignore law as the claim words it
HasPrefixIn(code, prefixes) ==
    \E k \in 1..Len(prefixes) : StartsWith(code, prefixes[k])
SurvivesByLaw(e) ==
    /\ Rep.select = <<>> \/ HasPrefixIn(DiagCode(e), Rep.select)
    /\ ~(Rep.ignore # <<>> /\ HasPrefixIn(DiagCode(e), Rep.ignore))

\* C1: a diagnostic on a line that is not noqa-suppressed survives iff
\* (select is empty or a select prefix matches) and no ignore prefix matches.
C1_SelectIgnore ==
    Built =>
        \A k \in 1..Len(Rep.args) :
            ~skip_line_lint(RowText(Rep.text, DiagLine(Rep.args[k]))) =>
                (Rep.args[k] \in Range(Rep.errors_list) <=> SurvivesByLaw(Rep.args[k]))

\* C1 witness: select=[E], ignore=[E501] over F401, E501, E111 leaves E111
C1_Witness ==
    /\ Built
    /\ Rep.select = <<<<"E">>>> /\ Rep.ignore = <<Code("E", 501)>>
    /\ Rep.text = Buf_Plain
    /\ Rep.args = <<<<1, 0, Msg_F401_os>>, <<1, 2, Msg_E501>>, <<2, 0, Msg_E111>>>>
    /\ Rep.errors_list = <<<<2, 0, Msg_E111>>>>

\* a line that, stripped, ends with '# noqa' in any letter case
EndsWithNoqa(line) ==
    LET t == Strip(line)
        n == Len(t)
    IN  /\ n >= 6
        /\ t[n - 5] = "#" /\ t[n - 4] = " "
        /\ t[n - 3] \in {"n", "N"} /\ t[n - 2] \in {"o", "O"}
        /\ t[n - 1] \in {"q", "Q"} /\ t[n] \in {"a", "A"}

\* C2: no diagnostic on a line that ends with '# noqa' survives: it is in
\* neither the filtered list, the popup list nor the per-line index, and
\* every region comes from a surviving diagnostic.
C2_NoqaLine ==
    Built =>
        /\ \A n \in 1..RowCount(Rep.text) :
            EndsWithNoqa(RowText(Rep.text, n)) =>
                /\ \A k \in 1..Len(Rep.errors_list) : DiagLine(Rep.errors_list[k]) # n
                /\ \A k \in 1..Len(Rep.errors_to_show) : Rep.errors_to_show[k].line # n
                /\ (n - 1) \notin DOMAIN ERRORS_IN_VIEWS[1]
        /\ RegionCount = IF Highlighting THEN Len(Rep.errors_list) ELSE 0

\* C2 witness: '# NOQA' after an earlier comment, nothing selected or ignored
C2_Witness ==
    /\ Built
    /\ Rep.text = Buf_NoqaAfterComment
    /\ Rep.select = <<>> /\ Rep.ignore = <<>> /\ Highlighting
    /\ Rep.args = <<<<1, 0, Msg_F401_os>>, <<1, 2, Msg_E501>>, <<2, 2, Msg_E501>>>>
    /\ Rep.errors_list = <<<<2, 2, Msg_E501>>>>
    /\ RegionCount = 1
    /\ DOMAIN ERRORS_IN_VIEWS[1] = {1}

\* C4 as stated: the surviving list, the popup list and the per-line index
\* never hold the same (code, message) twice.
C4_NoDuplicates ==
    Built =>
        /\ \A i, j \in 1..Len(Rep.errors_list) :
            i < j => DiagText(Rep.errors_list[i]) # DiagText(Rep.errors_list[j])
        /\ \A i, j \in 1..Len(Rep.errors_to_show) :
            i < j => Rep.errors_to_show[i].text # Rep.errors_to_show[j].text
        /\ \A l \in DOMAIN ERRORS_IN_VIEWS[1] :
            \A i, j \in 1..Len(ERRORS_IN_VIEWS[1][l]) :
                i < j => ERRORS_IN_VIEWS[1][l][i] # ERRORS_IN_VIEWS[1][l][j]

\* C4 failing input: the checker reports the same diagnostic twice
C4_Witness ==
    /\ Built
    /\ Rep.args = <<<<2, 0, Msg_C901_f>>, <<2, 0, Msg_C901_f>>>>
    /\ Rep.errors_list = Rep.args
    /\ Len(Rep.errors_to_show) = 2
    /\ ERRORS_IN_VIEWS[1][1] = <<Msg_C901_f, Msg_C901_f>>

\* the bucket the claim names for a code
BucketByLaw(code) ==
    CASE code[1] = "F" -> "critical"
      [] code[1] = "E" -> "error"
      [] OTHER -> "warning"

\* C9: with highlighting or gutter marks on, every surviving diagnostic adds
\* one region to the bucket of its code's first letter.
C9_Buckets ==
    (Built /\ Highlighting) =>
        /\ \A l \in Levels :
            Len(Rep.regions[l]) =
                Count(Rep.errors_list, LAMBDA e : BucketByLaw(DiagCode(e)) = l)
        /\ RegionCount = Len(Rep.errors_list)

C9_Witness ==
    /\ Built /\ Highlighting
    /\ Rep.errors_list =
        <<<<1, 0, Msg_F401_os>>, <<1, 2, Msg_E501>>, <<2, 0, Msg_C901_f>>>>
    /\ \A l \in Levels : Len(Rep.regions[l]) = 1

\* C10: the index maps the row of every surviving diagnostic to the
\* messages of the survivors on that row, in survivor order, and has no
\* other key (rows are keyed 0-based: line - 1).
C10_LineIndex ==
    Built =>
        /\ DOMAIN ERRORS_IN_VIEWS[1] =
            {DiagLine(Rep.errors_list[k]) - 1 : k \in 1..Len(Rep.errors_list)}
        /\ \A l \in DOMAIN ERRORS_IN_VIEWS[1] :
            LET on == SelectSeq(Rep.errors_list, LAMBDA e : DiagLine(e) - 1 = l)
            IN  ERRORS_IN_VIEWS[1][l] = [k \in 1..Len(on) |-> DiagText(on[k])]

\* C10 witness: two survivors on row 2, and a row whose diagnostics were
\* all filtered out
C10_Witness ==
    /\ Built
    /\ Rep.ignore = <<Code("E", 501)>>
    /\ Rep.args = <<<<1, 2, Msg_E501>>, <<2, 0, Msg_E111>>, <<2, 0, Msg_C901_f>>>>
    /\ DOMAIN ERRORS_IN_VIEWS[1] = {1}
    /\ ERRORS_IN_VIEWS[1][1] = <<Msg_E111, Msg_C901_f>>

-----------------------------------------------------------------------------
(* Spec: the editor.  View 1 holds a Python file; view 2 is a scratch view. *)
(* Buffers are edited on the main thread while async_lint calls wait in the *)
(* queue of set_timeout_async or run.                                       *)

MaxQueue == 2

EditorBuffers(v) ==
    IF v = 1
    THEN {Buf_Plain, Buf_NoFileNoqa, Buf_FileNoqa, Buf_FileNoqaInCode,
          Buf_FileNoqaTab}
    ELSE {<<>>, Buf_Plain}
\* on_post_save lints aloud; the background listener lints quietly
EditorJobKinds ==
    {[view_settings |-> [select |-> <<>>, ignore |-> <<>>,
                         python_interpreter |-> "internal"],
      quiet |-> FALSE],
     [view_settings |-> [select |-> <<>>, ignore |-> <<Code("E", 501)>>,
                         python_interpreter |-> "auto"],
      quiet |-> TRUE]}
\* what lint or lint_external may return for the buffers above
EditorResults ==
    {<<>>, <<<<1, 0, Msg_F401_os>>, <<2, 2, Msg_E501>>>>}

Init ==
    /\ view_text = [v \in Views |-> IF v = 1 THEN Buf_Plain ELSE <<>>]
    /\ view_attrs = [v \in Views |->
            [is_scratch |-> v # 1, has_file_name |-> v = 1, is_python |-> v = 1,
             ignored |-> FALSE]]
    /\ settings = [highlight |-> TRUE, highlight_type |-> "error",
                   gutter_marks |-> "theme-simple", popup |-> TRUE,
                   blink_gutter_marks_on_success |-> TRUE]
    /\ async_queue = <<>>
    /\ running = NoJob
    /\ timers = {}
    /\ report = [v \in Views |-> NoReport]
    /\ view_regions = [v \in Views |-> NoRegions]
    /\ view_status = [v \in Views |-> <<>>]
    /\ ERRORS_IN_VIEWS = <<>>
    /\ logged = [v \in Views |-> ""]
    /\ full_line_text = <<>>
    /\ line_point = 0
    /\ error_msg = Msg_E501
    /\ error_col = 0
    /\ region = NotCalled
    /\ EngineIdle

Next ==
    \/ \E v \in Views : \E text \in EditorBuffers(v) : Modify(v, text)
    \/ \E v \in Views, kind \in EditorJobKinds :
            DoLint(v, kind.view_settings, kind.quiet, MaxQueue)
    \/ AsyncLintStart(EditorResults)
    \/ AsyncLintFinish
    \/ \E v \in Views : EraseSuccess(v)

Spec == Init /\ [][Next]_vars

-----------------------------------------------------------------------------
(* Claims about async_lint, checked under Spec.                             *)

\* text holds 'flake8', then ':' or '=', whitespace, 'noqa', in any case
MarkerAt(text, i) ==
    /\ i + 7 <= Len(text)
    /\ Lower(SubSeq(text, i, i + 5)) = <<"f", "l", "a", "k", "e", "8">>
    /\ text[i + 6] \in {":", "="}
    /\ \E j \in (i + 7)..(Len(text) - 3) :
        /\ \A k \in (i + 7)..(j - 1) : text[k] \in PyWhitespace
        /\ Lower(SubSeq(text, j, j + 3)) = <<"n", "o", "q", "a">>
HasFileMarker(text) == \E i \in 1..Len(text) : MarkerAt(text, i)

\* a step in which the oldest queued async_lint call runs
AsyncLintRuns == async_queue # <<>> /\ async_queue' = Tail(async_queue)

\* C3: an async_lint call that reads a buffer holding the whole-file noqa
\* marker invokes no checker, builds no LintReport and leaves the view
\* without regions.
C3_FileNoqa ==
    [][(AsyncLintRuns /\ HasFileMarker(view_text[Head(async_queue).view])) =>
            /\ running' = NoJob
            /\ report' = report
            /\ ERRORS_IN_VIEWS' = ERRORS_IN_VIEWS
            /\ view_regions'[Head(async_queue).view] = NoRegions]_vars

\* C3 witness: the marker inside a string literal, after an earlier run had
\* put regions on the view
C3_Witness ==
    /\ view_text[1] = Buf_FileNoqaInCode
    /\ logged[1] = LogSkipFile
    /\ report[1] # NoReport /\ report[1].errors_list # <<>>
    /\ view_regions[1] = NoRegions
    /\ async_queue = <<>> /\ running = NoJob

\* the index a list of surviving diagnostics amounts to: 0-based row ->
\* the messages on that row, in list order
IndexOfList(errors) ==
    [l \in {DiagLine(errors[k]) - 1 : k \in 1..Len(errors)} |->
        LET on == SelectSeq(errors, LAMBDA e : DiagLine(e) - 1 = l)
        IN  [k \in 1..Len(on) |-> DiagText(on[k])]]

\* a step that ends a lint run of view v with an empty result because the
\* buffer holds the whole-file marker
RunSuppressed(v) ==
    /\ AsyncLintRuns /\ Head(async_queue).view = v
    /\ running' = NoJob
\* a step that ends a lint run of view v with a report
RunReported(v) ==
    /\ running # NoJob /\ running.view = v
    /\ running' = NoJob /\ report'[v].state = "built"

\* C11 as stated: when a lint run of a view ends, the view's line index is
\* the index of that run's result: empty after a suppressed run, the index
\* of the report's survivors after a reported one.
C11_IndexRebuilt ==
    [][\A v \in Views :
        /\ RunSuppressed(v) =>
                (v \in DOMAIN ERRORS_IN_VIEWS' => ERRORS_IN_VIEWS'[v] = <<>>)
        /\ RunReported(v) =>
                (/\ v \in DOMAIN ERRORS_IN_VIEWS'
                 /\ ERRORS_IN_VIEWS'[v] = IndexOfList(report'[v].errors_list))]_vars

\* C11 failing state: the last run of view 1 was suppressed by the marker and
\* the index still holds the messages of the run before it
C11_Witness ==
    /\ logged[1] = LogSkipFile
    /\ HasFileMarker(view_text[1])
    /\ running = NoJob /\ async_queue = <<>>
    /\ view_regions[1] = NoRegions
    /\ 1 \in DOMAIN ERRORS_IN_VIEWS
    /\ ERRORS_IN_VIEWS[1] = (0 :> <<Msg_F401_os>>) @@ (1 :> <<Msg_E501>>)

-----------------------------------------------------------------------------
(* Claims about diagnostics out of range, checked under SpecPrepare.        *)

\* C19 as stated: whatever the positions and messages of the diagnostics,
\* the constructor of LintReport returns: prepare_errors and error_region
\* raise nothing.
C19_NoCrash == Rep.state # "raised"

\* C19 failing state: E231 at column 9 of the nine-character line
\* 'import os' raised IndexError in error_region
C19_Witness ==
    /\ Rep.state = "raised" /\ Rep.exc = "IndexError"
    /\ Rep.text = Buf_Plain
    /\ Rep.args = <<<<1, 9, Msg_E231>>, <<2, 2, Msg_E501>>>>
    /\ Highlighting /\ Rep.highlight_type = "error"
    /\ Rep.select = <<>> /\ Rep.ignore = <<>>
    /\ 1 \notin DOMAIN ERRORS_IN_VIEWS

\* a message without separator raised ValueError in prepare_errors
C19_NoSeparator ==
    /\ Rep.state = "raised" /\ Rep.exc = "ValueError"
    /\ Rep.args = <<<<2, 4, Msg_Empty>>>>

-----------------------------------------------------------------------------
(* SpecLint: lint(lines, settings) of lint.py, called again and again in    *)
(* one process. The checkers (pep8, pep257, pyflakes, pep8ext_naming,       *)
(* mccabe) are libraries: a source is drawn with what each of them finds in *)
(* it, and lint is modelled by what it does with their findings.            *)

MaxCalls == 3         \* calls of lint in one process

RECURSIVE DigitsValue(_)
DigitsValue(ds) ==
    IF ds = <<>> THEN 0
    ELSE 10 * DigitsValue(SubSeq(ds, 1, Len(ds) - 1))
         + (CHOOSE k \in 1..Len(Digits) : Digits[k] = ds[Len(ds)]) - 1

\* int(x): surrounding whitespace and a sign are accepted in a str
PyInt(x) ==
    CASE x.t = "int" -> [exc |-> "none", value |-> x.v]
      [] x.t = "none" -> [exc |-> "TypeError", value |-> 0]
      [] x.t = "str" ->
            LET s == Strip(x.v)
                signed == s # <<>> /\ s[1] \in {"-", "+"}
                ds == IF signed THEN Tail(s) ELSE s
            IN  IF ds # <<>> /\ Range(ds) \subseteq Range(Digits)
                THEN [exc |-> "none",
                      value |-> IF s[1] = "-" THEN 0 - DigitsValue(ds)
                                ELSE DigitsValue(ds)]
                ELSE [exc |-> "ValueError", value |-> 0]

\* sorted(seq, key=...): Python's sort is stable; keys[i] is the key of
\* seq[i], a pair compared like the '{0:09d}{1:09d}' strings of lint
SortedByKeys(seq, keys) ==
    LET n == Len(seq)
        rank(i) == Cardinality({j \in 1..n :
                        \/ KeyLess(keys[j], keys[i])
                        \/ (keys[j] = keys[i] /\ j < i)}) + 1
    IN  [p \in 1..n |-> seq[CHOOSE i \in 1..n : rank(i) = p]]

\* '%d' % n
RECURSIVE NatToStr(_)
NatToStr(n) ==
    IF n < 10 THEN <<Digits[n + 1]>>
    ELSE NatToStr(n \div 10) \o <<Digits[(n % 10) + 1]>>
FormatD(n) == IF n < 0 THEN <<"-">> \o NatToStr(0 - n) ELSE NatToStr(n)

\* '{0:0Wd}'.format(n): the sign first, then zeros up to the width W
FormatZeroPadded(n, width) ==
    LET digits == NatToStr(IF n < 0 THEN 0 - n ELSE n)
        sign == IF n < 0 THEN <<"-">> ELSE <<>>
        fill == width - Len(sign) - Len(digits)
    IN  sign \o [k \in 1..(IF fill > 0 THEN fill ELSE 0) |-> "0"] \o digits

\* the code point order of the characters of a formatted integer
CodePoint(c) ==
    IF c = "-" THEN 45 ELSE 47 + (CHOOSE k \in 1..10 : Digits[k] = c)
\* a < b for two str objects
StrLess(a, b) ==
    LET n == IF Len(a) < Len(b) THEN Len(a) ELSE Len(b)
        differ == {k \in 1..n : a[k] # b[k]}
        first == CHOOSE k \in differ : \A m \in differ : k <= m
    IN  IF differ = {} THEN Len(a) < Len(b)
        ELSE CodePoint(a[first]) < CodePoint(b[first])

\* key=lambda e: '{0:09d}{1:09d}'.format(e[0], e[1])
MutSortKey(e) == FormatD(e[1]) \o FormatD(e[2])
SortKey(e) == FormatZeroPadded(e[1], 9) \o FormatZeroPadded(e[2], 9)

\* sorted(seq, key=...) with str keys; the sort is stable
SortedByStrKeys(seq, keys) ==
    LET n == Len(seq)
        rank(i) == Cardinality({j \in 1..n :
                        \/ StrLess(keys[j], keys[i])
                        \/ (keys[j] = keys[i] /\ j < i)}) + 1
    IN  [p \in 1..n |-> seq[CHOOSE i \in 1..n : rank(i) = p]]

\* E901 SyntaxError: invalid syntax
Msg_E901 ==
    <<"E","9","0","1"," ","S","y","n","t","a","x","E","r","r","o","r",":"," ",
      "i","n","v","a","l","i","d"," ","s","y","n","t","a","x">>
\* F821 undefined name 'foo'
Msg_F821_foo ==
    <<"F","8","2","1"," ","u","n","d","e","f","i","n","e","d"," ","n","a","m",
      "e"," ","'","f","o","o","'">>
\* N802 function name should be lowercase
Msg_N802 ==
    <<"N","8","0","2"," ","f","u","n","c","t","i","o","n"," ","n","a","m","e",
      " ","s","h","o","u","l","d"," ","b","e"," ","l","o","w","e","r","c","a",
      "s","e">>

Checkers == {"pep8", "pep257", "pyflakes", "naming", "mccabe"}

\* uses the name foo on line 2, has a long line 12, two style findings
\* and a function f of complexity 3 on line 1 and no module docstring
Src_UsesFoo ==
    [name |-> "uses_foo.py", compiles |-> TRUE, syntax |-> <<0, 0>>,
     style |-> <<<<1, 4, Msg_E225>>, <<1, 0, Msg_E401>>>>,
     long |-> <<<<12, 85>>>>,
     docstring |-> <<[line |-> 1, message |-> Msg_D100]>>,
     flakes |-> <<[lineno |-> 2, col |-> 4, undefined |-> "foo",
                   message |-> Msg_F821_foo],
                  [lineno |-> 1, col |-> 0, undefined |-> "",
                   message |-> Msg_F401_os]>>,
     naming |-> <<<<1, 4, Msg_N802>>>>,
     blocks |-> <<[lineno |-> 1, col |-> 0, complexity |-> 3,
                   message |-> Msg_C901_f]>>]
\* does not parse: SyntaxError at line 1, offset 7
Src_Broken ==
    [name |-> "broken.py", compiles |-> FALSE, syntax |-> <<1, 7>>,
     style |-> <<<<1, 5, Msg_E231>>>>, long |-> <<>>,
     docstring |-> <<[line |-> 1, message |-> Msg_D100]>>,
     flakes |-> <<>>, naming |-> <<>>, blocks |-> <<>>]
\* nothing to report
Src_Clean ==
    [name |-> "clean.py", compiles |-> TRUE, syntax |-> <<0, 0>>,
     style |-> <<>>, long |-> <<>>, docstring |-> <<>>,
     flakes |-> <<>>, naming |-> <<>>, blocks |-> <<>>]
LintSources == {Src_UsesFoo, Src_Broken, Src_Clean}

\* the settings of a view, as view_settings or the worker's arguments
\* hand them to lint
Set_Default ==
    [pep8 |-> TRUE, pep257 |-> FALSE, pyflakes |-> TRUE, naming |-> TRUE,
     builtins |-> <<>>, complexity |-> PyIntVal(-1),
     pep8_max_line_length |-> 79]
Set_Builtins == [Set_Default EXCEPT !.builtins = <<"foo">>]
Set_Docstrings ==
    [Set_Default EXCEPT !.pep257 = TRUE, !.complexity = PyIntVal(2),
                        !.pep8_max_line_length = 100]
Set_BadComplexity ==
    [Set_Default EXCEPT !.pep8 = FALSE, !.naming = FALSE,
                        !.complexity = PyStrVal(<<"a", "b", "c">>)]
LintSettings == {Set_Default, Set_Builtins, Set_Docstrings, Set_BadComplexity}

\* a checker that meets an internal fault raises when it runs
LintInputs ==
    {<<src, s, "none">> : src \in LintSources, s \in LintSettings}
    \cup {<<src, Set_Docstrings, f>> :
            src \in LintSources, f \in {"pep8", "pyflakes"}}

\* one checker's turn: it raises, or lint adds what it found
RunChecker(st, name, fault, found) ==
    IF fault = name
    THEN [st EXCEPT !.exc = "CheckerError", !.ran = @ \cup {name}]
    ELSE [st EXCEPT !.warnings = @ \o found, !.ran = @ \cup {name}]

\* pep8: its findings, and E501 for the lines longer than max_line_length
lint_pep8(st, src, s, fault) ==
    IF st.exc # "none" \/ ~s.pep8 THEN st
    ELSE RunChecker(st, "pep8", fault,
            src.style \o
            [k \in 1..Len(SelectSeq(src.long,
                            LAMBDA l : l[2] > s.pep8_max_line_length)) |->
                <<SelectSeq(src.long,
                    LAMBDA l : l[2] > s.pep8_max_line_length)[k][1],
                  s.pep8_max_line_length, Msg_E501>>])

lint_pep257(st, src, s, fault) ==
    IF st.exc # "none" \/ ~s.pep257 THEN st
    ELSE RunChecker(st, "pep257", fault,
            [k \in 1..Len(src.docstring) |->
                <<src.docstring[k].line, 0, src.docstring[k].message>>])

\* compile(lines, ...): E901 at the position of the syntax error
lint_compile(st, src) ==
    IF st.exc # "none" \/ src.compiles THEN st
    ELSE [st EXCEPT !.warnings =
            Append(@, <<src.syntax[1], src.syntax[2], Msg_E901>>)]

\* pyflakes: Checker.builtIns is extended first; the messages are sorted
\* by line and passed through FlakesReporter.flake
lint_pyflakes(st, src, s, fault) ==
    IF st.exc # "none" \/ ~src.compiles \/ ~s.pyflakes THEN st
    ELSE LET st1 == IF s.builtins # <<>>
                    THEN [st EXCEPT !.builtIns = @ \cup Range(s.builtins)]
                    ELSE st
             messages == SelectSeq(src.flakes,
                            LAMBDA m : m.undefined = ""
                                       \/ m.undefined \notin st1.builtIns)
             sorted == SortedByKeys(messages,
                            [k \in 1..Len(messages) |->
                                <<messages[k].lineno, 0>>])
         IN  RunChecker(st1, "pyflakes", fault,
                [k \in 1..Len(sorted) |->
                    <<sorted[k].lineno, sorted[k].col, sorted[k].message>>])

lint_naming(st, src, s, fault) ==
    IF st.exc # "none" \/ ~src.compiles \/ ~s.naming THEN st
    ELSE RunChecker(st, "naming", fault, src.naming)

\* mccabe: int(complexity), -1 when it cannot be read; a threshold above
\* -1 is stored in McCabeChecker.max_complexity and the checker is run
lint_mccabe(st, src, s, fault) ==
    IF st.exc # "none" \/ ~src.compiles THEN st
    ELSE LET parsed == PyInt(s.complexity)
             complexity == IF parsed.exc = "none" THEN parsed.value ELSE -1
             st1 == [st EXCEPT !.max_complexity = complexity]
             found == SelectSeq(src.blocks,
                        LAMBDA b : b.complexity > st1.max_complexity)
         IN  IF complexity > -1
             THEN RunChecker(st1, "mccabe", fault,
                    [k \in 1..Len(found) |->
                        <<found[k].lineno, found[k].col, found[k].message>>])
             ELSE st

\* lint(lines, settings), started with the class attributes cls: what it
\* returns or raises, the checkers it ran and the class attributes it left
lint(src, s, fault, cls) ==
    LET st0 == [exc |-> "none", warnings |-> <<>>, ran |-> {},
                builtIns |-> cls.builtIns,
                max_complexity |-> cls.max_complexity]
        st1 == lint_pep8(st0, src, s, fault)
        st2 == lint_pep257(st1, src, s, fault)
        st3 == lint_compile(st2, src)
        st4 == lint_pyflakes(st3, src, s, fault)
        st5 == lint_naming(st4, src, s, fault)
        st6 == lint_mccabe(st5, src, s, fault)
    IN  IF st6.exc # "none" THEN [st6 EXCEPT !.warnings = <<>>]
        ELSE [st6 EXCEPT !.warnings =
                SortedByStrKeys(@, [k \in 1..Len(@) |-> SortKey(@[k])])]

\* the rest of the program while only lint is exercised
RegionIdle ==
    /\ full_line_text = <<>>
    /\ line_point = 0
    /\ error_msg = Msg_E501
    /\ error_col = 0
    /\ region = NotCalled

InitLint ==
    /\ LintIdle
    /\ WireIdle
    /\ SettingsIdle
    /\ LiveIdle
    /\ RegionIdle
    /\ UiIdle
    /\ EditorIdle

Lint(src, s, fault) ==
    /\ Len(calls) < MaxCalls
    /\ \E out \in {lint(src, s, fault,
                        [builtIns |-> builtIns,
                         max_complexity |-> max_complexity])} :
        /\ builtIns' = out.builtIns
        /\ max_complexity' = out.max_complexity
        /\ calls' = Append(calls,
                [lines |-> src, settings |-> s, fault |-> fault,
                 exc |-> out.exc, ran |-> out.ran, result |-> out.warnings])
    /\ UNCHANGED <<regionVars, editorVars, wireVars, settingsVars, liveVars, uiVars>>

NextLint == \E input \in LintInputs : Lint(input[1], input[2], input[3])

SpecLint == InitLint /\ [][NextLint]_vars

-----------------------------------------------------------------------------
(* Claims about the lint engine, checked under SpecLint.                    *)

Returned_(call) == call.exc = "none"
HasMessage(call, msg) == \E k \in 1..Len(call.result) : call.result[k][3] = msg

\* C12 as stated: the engine keeps nothing between invocations: two calls
\* of lint with the same source and the same settings that both return
\* give the same diagnostics, whatever was linted in between.
C12_Stateless ==
    \A i, j \in 1..Len(calls) :
        (/\ calls[i].lines = calls[j].lines
         /\ calls[i].settings = calls[j].settings
         /\ Returned_(calls[i]) /\ Returned_(calls[j]))
        => calls[i].result = calls[j].result

\* C12 failing state: uses_foo.py linted with the default settings reports
\* F821 for foo; after a run with builtins = ['foo'] the same call does not
C12_Witness ==
    /\ Len(calls) = 3
    /\ calls[1].lines = Src_UsesFoo /\ calls[1].settings = Set_Default
    /\ calls[2].settings = Set_Builtins
    /\ calls[3].lines = Src_UsesFoo /\ calls[3].settings = Set_Default
    /\ \A k \in 1..3 : calls[k].fault = "none"
    /\ HasMessage(calls[1], Msg_F821_foo)
    /\ ~HasMessage(calls[3], Msg_F821_foo)
    /\ "foo" \in builtIns

\* the checkers the claim counts as depending on the syntax tree
AstCheckers == {"pyflakes", "naming", "mccabe", "pep257"}

\* C13 as stated: when the source does not parse, the run reports exactly
\* one E901 diagnostic at the position of the syntax error, runs none of
\* pyflakes, naming, mccabe and pep257, and still runs pep8 when enabled.
C13_ParseFailure ==
    \A i \in 1..Len(calls) :
        (~calls[i].lines.compiles /\ Returned_(calls[i])) =>
            /\ Count(calls[i].result, LAMBDA e : e[3] = Msg_E901) = 1
            /\ <<calls[i].lines.syntax[1], calls[i].lines.syntax[2], Msg_E901>>
                    \in Range(calls[i].result)
            /\ calls[i].ran \cap AstCheckers = {}
            /\ calls[i].settings.pep8 => "pep8" \in calls[i].ran

\* C13 failing state: broken.py linted with pep257 enabled: pep257 ran on
\* the unparseable source and its finding is returned next to E901
C13_Witness ==
    /\ Len(calls) = 1
    /\ calls[1].lines = Src_Broken /\ calls[1].settings = Set_Docstrings
    /\ calls[1].fault = "none" /\ Returned_(calls[1])
    /\ calls[1].ran = {"pep8", "pep257"}
    /\ calls[1].result =
            <<<<1, 0, Msg_D100>>, <<1, 5, Msg_E231>>, <<1, 7, Msg_E901>>>>

\* C14 as stated: a checker's internal fault does not abort the run: lint
\* returns, and what the checkers that ran without fault found is in the
\* result.
C14_FaultContained ==
    \A i \in 1..Len(calls) :
        calls[i].fault \in calls[i].ran =>
            /\ Returned_(calls[i])
            /\ calls[i].settings.pep8 /\ calls[i].fault # "pep8" =>
                    \A e \in Range(calls[i].lines.style) :
                        e \in Range(calls[i].result)

\* C14 failing state: pyflakes raised on uses_foo.py after pep8 and pep257
\* had run: the exception left lint and nothing was returned
C14_Witness ==
    /\ Len(calls) = 1
    /\ calls[1].lines = Src_UsesFoo /\ calls[1].settings = Set_Docstrings
    /\ calls[1].fault = "pyflakes"
    /\ calls[1].exc = "CheckerError"
    /\ calls[1].ran = {"pep8", "pep257", "pyflakes"}
    /\ calls[1].result = <<>>

-----------------------------------------------------------------------------
(* SpecWire: the external interpreter. The worker (lint.py run as a script) *)
(* prints what lint returned, one diagnostic per line; lint_external reads  *)
(* the output of the process back into diagnostics. The characters drawn    *)
(* are ASCII, which utf-8 encodes and decodes one to one.                   *)

MaxWire == 3          \* diagnostics the worker's lint returns

\* bytes.splitlines(): lines end at \n, \r\n or \r; no empty last line
RECURSIVE SplitLines(_)
SplitLines(s) ==
    LET ends == {i \in 1..Len(s) : s[i] \in {"\n", "\r"}}
        i == CHOOSE e \in ends : \A f \in ends : e <= f
        j == IF s[i] = "\r" /\ i < Len(s) /\ s[i + 1] = "\n" THEN i + 1 ELSE i
    IN  IF s = <<>> THEN <<>>
        ELSE IF ends = {} THEN <<s>>
        ELSE <<SubSeq(s, 1, i - 1)>> \o SplitLines(SubSeq(s, j + 1, Len(s)))

\* s.split(sep, n) for a one-character sep
RECURSIVE SplitMax(_, _, _)
SplitMax(s, sep, n) ==
    LET i == Find(s, <<sep>>)
    IN  IF n = 0 \/ i = -1 THEN <<s>>
        ELSE <<SliceTo(s, i)>> \o SplitMax(SliceFrom(s, i + 1), sep, n - 1)

\* a message that ends with a blank: 'W291 trailing whitespace '
Msg_W291_blank ==
    <<"W","2","9","1"," ","t","r","a","i","l","i","n","g"," ","w","h","i","t",
      "e","s","p","a","c","e"," ">>
\* what the interpreter writes to stderr when lint raises in the worker
WorkerTraceback ==
    <<"T","r","a","c","e","b","a","c","k"," ","(","m","o","s","t"," ","r","e",
      "c","e","n","t"," ","c","a","l","l"," ","l","a","s","t",")",":","\n",
      " "," ","F","i","l","e"," ","\"","l","i","n","t",".","p","y","\"",",",
      " ","l","i","n","e"," ","3","3","1",","," ","i","n"," ","<","m","o","d",
      "u","l","e",">","\n","R","u","n","t","i","m","e","E","r","r","o","r",
      ":"," ","m","a","x","i","m","u","m"," ","r","e","c","u","r","s","i","o",
      "n"," ","d","e","p","t","h"," ","e","x","c","e","e","d","e","d","\n">>

\* print("%d:%d:%s" % lint_warning) for every diagnostic; newline is what
\* print ends a line with on the worker's platform
RECURSIVE WorkerPrint(_, _)
WorkerPrint(warnings, newline) ==
    IF warnings = <<>> THEN <<>>
    ELSE FormatD(warnings[1][1]) \o <<":">> \o FormatD(warnings[1][2])
         \o <<":">> \o warnings[1][3] \o newline
         \o WorkerPrint(Tail(warnings), newline)

\* the loop of lint_external over the lines of the output: a line of three
\* parts with two integers is a diagnostic, any other line is printed to
\* the console
RECURSIVE ParseLines(_, _)
ParseLines(acc, raw) ==
    IF raw = <<>> THEN acc
    ELSE LET line == Strip(raw[1])
             warning == SplitMax(line, ":", 2)
             a == PyInt(PyStrVal(warning[1]))
             b == PyInt(PyStrVal(warning[2]))
             next == IF Len(warning) = 3 /\ a.exc = "none" /\ b.exc = "none"
                     THEN [acc EXCEPT !.warnings =
                            Append(@, <<a.value, b.value, warning[3]>>)]
                     ELSE [acc EXCEPT !.console = Append(@, line)]
         IN  ParseLines(next, Tail(raw))

\* LintReport.__init__ on what async_lint got from lint_external
Presented(errors_list) == IF errors_list # <<>> THEN "errors" ELSE "success"

\* lint_external from proc.communicate() on, and the report async_lint
\* builds from its result
lint_external(stdout) ==
    LET parsed == ParseLines([warnings |-> <<>>, console |-> <<>>],
                             SplitLines(stdout))
    IN  [state |-> "returned", exc |-> "none",
         warnings |-> parsed.warnings, console |-> parsed.console,
         shown |-> Presented(parsed.warnings)]

WireDiagnostics ==
    {<<1, 0, Msg_F401_os>>, <<2, 7, Msg_E901>>, <<12, 4, Msg_W291_blank>>,
     <<1, 0, Msg_Empty>>}
WireWarnings == SeqsUpTo(WireDiagnostics, MaxWire)
WireNewlines == {<<"\n">>, <<"\r", "\n">>}

InitWire ==
    /\ WireIdle
    /\ LintIdle
    /\ SettingsIdle
    /\ LiveIdle
    /\ RegionIdle
    /\ UiIdle
    /\ EditorIdle

\* the worker: lint returns warnings and they are printed, or lint raises
\* and the interpreter ends with a traceback and exit status 1
WorkerMain(warnings, newline, fault) ==
    /\ proc.state = "none" /\ external.state = "none"
    /\ proc' = IF fault = "none"
               THEN [state |-> "exited", warnings |-> warnings,
                     stdout |-> WorkerPrint(warnings, newline),
                     returncode |-> 0, fault |-> fault]
               ELSE [state |-> "exited", warnings |-> <<>>,
                     stdout |-> WorkerTraceback,
                     returncode |-> 1, fault |-> fault]
    /\ UNCHANGED external
    /\ UNCHANGED <<regionVars, editorVars, lintVars, settingsVars, liveVars, uiVars>>

\* subprocess.Popen cannot start the interpreter: OSError leaves
\* lint_external
PopenFails ==
    /\ proc.state = "none" /\ external.state = "none"
    /\ proc' = [NoProcess EXCEPT !.state = "failed", !.fault = "popen"]
    /\ external' = [NotRun EXCEPT !.state = "raised", !.exc = "OSError",
                                  !.shown = "nothing"]
    /\ UNCHANGED <<regionVars, editorVars, lintVars, settingsVars, liveVars, uiVars>>

\* lint_external reads the output of the finished process
LintExternal ==
    /\ proc.state = "exited" /\ external.state = "none"
    /\ external' = lint_external(proc.stdout)
    /\ UNCHANGED proc
    /\ UNCHANGED <<regionVars, editorVars, lintVars, settingsVars, liveVars, uiVars>>

NextWire ==
    \/ \E warnings \in WireWarnings, newline \in WireNewlines,
          fault \in {"none", "crash"} : WorkerMain(warnings, newline, fault)
    \/ PopenFails
    \/ LintExternal

SpecWire == InitWire /\ [][NextWire]_vars

-----------------------------------------------------------------------------
(* Claims about the external interpreter, checked under SpecWire.           *)

\* C16 as stated: when the subprocess fails or exits with a non-zero status
\* or writes a line that is not a diagnostic, lint_external surfaces a
\* run-level error: it does not return a normal result, the run is not
\* shown as a success, and no line of the faulty output becomes a finding.
C16_FaultSurfaced ==
    (proc.fault # "none" /\ external.state # "none") =>
        /\ external.state = "raised"
        /\ external.shown # "success"
        /\ external.warnings = <<>>

\* C16 failing state: the worker died with a traceback and status 1;
\* lint_external returned no diagnostics and the run was shown as a success
C16_Witness ==
    /\ proc.fault = "crash" /\ proc.returncode = 1
    /\ proc.stdout = WorkerTraceback
    /\ external.state = "returned"
    /\ external.warnings = <<>>
    /\ Len(external.console) = 3
    /\ external.shown = "success"

C17_ColonsKept ==
    (proc.fault = "none" /\ external.state = "returned"
     /\ \A k \in 1..Len(proc.warnings) :
            Strip(proc.warnings[k][3]) = proc.warnings[k][3]) =>
        external.warnings = proc.warnings

-----------------------------------------------------------------------------
(* SpecSettings: the settings of a lint run. Flake8LintSettings.setup reads *)
(* the plugin settings, SublimeView.view_settings lays the 'flake8lint'     *)
(* settings of the view (project) and the [flake8] section of the flake8    *)
(* config files over them. A settings file or dict is a function from the   *)
(* keys it has to their values.                                             *)

PyList(items) == [t |-> "list", v |-> items]

\* sublime's settings.get(key, default) and dict.get(key, default)
DictGet(dict, key, default) == IF key \in DOMAIN dict THEN dict[key] ELSE default

\* try: int(value) except (ValueError, TypeError): default
IntOr(value, default) ==
    LET parsed == PyInt(value)
    IN  IF parsed.exc = "none" THEN parsed.value ELSE default

\* value or []
OrEmptyList(value) ==
    IF \/ value.t = "none"
       \/ (value.t = "int" /\ value.v = 0)
       \/ (value.t \in {"list", "str"} /\ value.v = <<>>)
    THEN PyList(<<>>) ELSE value

\* Flake8LintSettings.setup: the attributes a lint run reads
setup(raw) ==
    [live_mode_lint_delay |->
        IntOr(DictGet(raw, "live_mode_lint_delay", PyIntVal(1000)), 1000),
     complexity |-> PyIntVal(IntOr(DictGet(raw, "complexity", PyIntVal(-1)), -1)),
     pep8_max_line_length |->
        PyIntVal(IntOr(DictGet(raw, "pep8_max_line_length", PyIntVal(79)), 79)),
     select |-> OrEmptyList(DictGet(raw, "select", PyNone)),
     ignore |-> OrEmptyList(DictGet(raw, "ignore", PyNone)),
     ignore_files |-> OrEmptyList(DictGet(raw, "ignore_files", PyNone)),
     use_flake8_global_config |-> DictGet(raw, "use_flake8_global_config", TRUE),
     use_flake8_project_config |->
        DictGet(raw, "use_flake8_project_config", TRUE)]

\* the keys of PROJECT_SETTINGS_KEYS that take part in the claims
PROJECT_SETTINGS_KEYS ==
    {"complexity", "pep8_max_line_length", "select", "ignore", "ignore_files",
     "use_flake8_global_config", "use_flake8_project_config"}
FLAKE8_SETTINGS_KEYS ==
    {"ignore", "select", "ignore_files", "pep8_max_line_length"}

\* load_flake8_config: (name in the file, key of the plugin, type)
Flake8Options ==
    <<<<"ignore", "ignore", "list">>,
      <<"select", "select", "list">>,
      <<"exclude", "ignore_files", "list">>,
      <<"max_line_length", "pep8_max_line_length", "int">>>>
\* config.replace('_', '-') on the names above
ReplaceUnderscore(config) ==
    IF config = "max_line_length" THEN "max-line-length" ELSE config

\* the loop of load_flake8_config over the options, from option k on
RECURSIVE LoadOptions(_, _, _)
LoadOptions(acc, parser, k) ==
    IF k > Len(Flake8Options) \/ acc.exc # "none" THEN acc
    ELSE LET option == Flake8Options[k]
             config == IF option[1] \in DOMAIN parser THEN option[1]
                       ELSE ReplaceUnderscore(option[1])
             option_value == Strip(parser[config])
             number == PyInt(PyStrVal(parser[config]))
             next ==
                IF config \notin DOMAIN parser \/ option_value = <<>> THEN acc
                ELSE IF option[3] = "list"
                THEN [acc EXCEPT !.result =
                        (option[2] :> PyList(SplitMax(option_value, ",",
                                                      Len(option_value)))) @@ @]
                ELSE IF number.exc = "none"
                THEN [acc EXCEPT !.result =
                        (option[2] :> PyIntVal(number.value)) @@ @]
                ELSE [acc EXCEPT !.exc = "ValueError"]
         IN  LoadOptions(next, parser, k + 1)

\* load_flake8_config: the global file is read first, the file found from
\* the directory of the source upwards is read over it; files.global and
\* files.project are the [flake8] sections of the two files
load_flake8_config(files, global_config, project_config) ==
    LET parser == (IF project_config THEN files.project ELSE <<>>)
                  @@ (IF global_config THEN files.global ELSE <<>>)
    IN  LoadOptions([exc |-> "none", result |-> <<>>], parser, 1)

\* a parameter defined by the plugin settings, the settings of the view and
\* the flake8 config
MutLayerValue(param, plugin_value, project, flake8_config) ==
    IF param \in DOMAIN project THEN project[param]
    ELSE IF param \in FLAKE8_SETTINGS_KEYS /\ param \in DOMAIN flake8_config
    THEN flake8_config[param]
    ELSE plugin_value
LayerValue(param, plugin_value, project, flake8_config) ==
    IF param \in FLAKE8_SETTINGS_KEYS /\ param \in DOMAIN flake8_config
    THEN flake8_config[param]
    ELSE IF param \in DOMAIN project THEN project[param]
    ELSE plugin_value

\* SublimeView.view_settings
view_settings(plugin, project, files) ==
    LET global_config == LayerValue("use_flake8_global_config",
                            plugin["use_flake8_global_config"], project, <<>>)
        project_config == LayerValue("use_flake8_project_config",
                            plugin["use_flake8_project_config"], project, <<>>)
        flake8_config ==
            IF global_config \/ project_config
            THEN load_flake8_config(files, global_config, project_config)
            ELSE [exc |-> "none", result |-> <<>>]
    IN  IF flake8_config.exc # "none"
        THEN [state |-> "raised", exc |-> flake8_config.exc,
              flake8_config |-> <<>>, result |-> <<>>]
        ELSE [state |-> "returned", exc |-> "none",
              flake8_config |-> flake8_config.result,
              result |-> [param \in PROJECT_SETTINGS_KEYS |->
                            LayerValue(param, plugin[param], project,
                                       flake8_config.result)]]

\* do_lint on view_settings['ignore_files']: filename_match iterates the
\* patterns; a value that cannot be iterated raises TypeError, which do_lint
\* answers with an error message before it goes on
IgnoreFilesCheck(patterns) ==
    IF OrEmptyList(patterns) = PyList(<<>>) THEN "no patterns"
    ELSE IF patterns.t \in {"list", "str"} THEN "matched against the file"
    ELSE "error message"

\* Flake8Lint.sublime-settings of the user
PluginLayers ==
    {<<>>,
     [complexity |-> PyStrVal(<<"1","0">>), pep8_max_line_length |-> PyIntVal(100),
      live_mode_lint_delay |-> PyStrVal(<<"a","b","c">>),
      ignore |-> PyList(<<<<"E","5","0","1">>>>), select |-> PyNone,
      ignore_files |-> PyIntVal(5)],
     [complexity |-> PyStrVal(<<"a","b","c">>), pep8_max_line_length |-> PyNone,
      live_mode_lint_delay |-> PyIntVal(200),
      ignore |-> PyList(<<<<"W">>>>), ignore_files |-> PyList(<<<<"*",".","p","y","c">>>>),
      use_flake8_global_config |-> FALSE]}
\* the 'flake8lint' settings of the view
ProjectLayers ==
    {<<>>,
     [ignore |-> PyList(<<<<"E","2">>>>), pep8_max_line_length |-> PyIntVal(120),
      select |-> PyList(<<<<"E">>>>)],
     [pep8_max_line_length |-> PyStrVal(<<"a","b","c">>), complexity |-> PyNone,
      ignore_files |-> PyIntVal(5), use_flake8_project_config |-> FALSE,
      use_flake8_global_config |-> TRUE]}
\* the [flake8] section of the global file, .config/flake8 of the user
GlobalFiles ==
    {<<>>,
     [ignore |-> <<"E","1",",","E","3">>, max_line_length |-> <<"9","0">>]}
\* the [flake8] section of setup.cfg, tox.ini or .pep8
ProjectFiles ==
    {<<>>,
     ("max-line-length" :> <<" ","9","9"," ">>) @@
        [ignore |-> <<>>, select |-> <<"E",",","W">>,
         exclude |-> <<"*",".","p","y","c",","," ","b","u","i","l","d">>],
     ("max-line-length" :> <<"a","b","c">>) @@ [ignore |-> <<"E","7">>]}

InitSettings ==
    /\ conf \in [plugin : PluginLayers, project : ProjectLayers,
                 files : [global : GlobalFiles, project : ProjectFiles]]
    /\ loaded = NotLoaded
    /\ resolved = NotResolved
    /\ LintIdle
    /\ WireIdle
    /\ LiveIdle
    /\ RegionIdle
    /\ UiIdle
    /\ EditorIdle

\* plugin_loaded: settings = Flake8LintSettings()
PluginLoaded ==
    /\ loaded = NotLoaded
    /\ loaded' = setup(conf.plugin)
    /\ UNCHANGED <<conf, resolved>>
    /\ UNCHANGED <<regionVars, editorVars, lintVars, wireVars, liveVars, uiVars>>

\* do_lint: view_settings = SublimeView.view_settings(view)
ViewSettings ==
    /\ loaded # NotLoaded
    /\ resolved.state = "none"
    /\ resolved' = view_settings(loaded, conf.project, conf.files)
    /\ UNCHANGED <<conf, loaded>>
    /\ UNCHANGED <<regionVars, editorVars, lintVars, wireVars, liveVars, uiVars>>

NextSettings ==
    \/ PluginLoaded
    \/ ViewSettings

SpecSettings == InitSettings /\ [][NextSettings]_vars

-----------------------------------------------------------------------------
(* Claims about the settings, checked under SpecSettings.                   *)

IsInt(value) == value.t = "int"

\* C15 as stated: a numeric setting that cannot be read falls back to its
\* default whatever layer it comes from: the settings object and the
\* settings of a run hold integers, with -1, 79 and 1000 in the place of a
\* value that is no number; resolving the settings never raises, and an
\* ignore_files value that is no list ends in an error message at most.
C15_ConfigFaultRecovered ==
    /\ loaded # NotLoaded =>
        /\ loaded.live_mode_lint_delay \in Int
        /\ IsInt(loaded.complexity)
        /\ IsInt(loaded.pep8_max_line_length)
    /\ resolved.state # "raised"
    /\ resolved.state = "returned" =>
        /\ IsInt(resolved.result.pep8_max_line_length)
        /\ IgnoreFilesCheck(resolved.result.ignore_files) # "raised"

\* C15 failing state: the config file of the project says
\* max-line-length = abc: view_settings raised ValueError
C15_Witness ==
    /\ conf.plugin = <<>> /\ conf.project = <<>>
    /\ conf.files.global = <<>>
    /\ "max-line-length" \in DOMAIN conf.files.project
    /\ conf.files.project["max-line-length"] = <<"a","b","c">>
    /\ loaded = setup(<<>>)
    /\ resolved.state = "raised" /\ resolved.exc = "ValueError"

\* the plugin's own layer recovers: setup holds the defaults where the
\* settings file holds no number
C15_SetupRecovers ==
    (loaded # NotLoaded /\ "complexity" \in DOMAIN conf.plugin
     /\ conf.plugin.complexity = PyStrVal(<<"a","b","c">>)) =>
        /\ loaded.complexity = PyIntVal(-1)
        /\ loaded.pep8_max_line_length = PyIntVal(79)
        /\ loaded.live_mode_lint_delay = 200

\* C18: when view_settings returns, each of ignore, select, ignore_files
\* and pep8_max_line_length has the value of the flake8 config if the
\* config gives it one, else the value of the view's settings if they have
\* the key, else the value of the plugin settings.
C18_Layering ==
    resolved.state = "returned" =>
        \A param \in FLAKE8_SETTINGS_KEYS :
            resolved.result[param] =
                IF param \in DOMAIN resolved.flake8_config
                THEN resolved.flake8_config[param]
                ELSE IF param \in DOMAIN conf.project
                THEN conf.project[param]
                ELSE loaded[param]

\* C18 witness: ignore is set in all three layers and the config wins;
\* pep8_max_line_length likewise; select is set in the view's settings and
\* not in the config; ignore_files is set in the plugin settings only
C18_Witness ==
    /\ resolved.state = "returned"
    /\ "ignore" \in DOMAIN conf.plugin
    /\ conf.plugin.ignore = PyList(<<<<"E","5","0","1">>>>)
    /\ conf.plugin.ignore_files = PyIntVal(5)
    /\ "ignore" \in DOMAIN conf.project
    /\ conf.project.ignore = PyList(<<<<"E","2">>>>)
    /\ conf.project.pep8_max_line_length = PyIntVal(120)
    /\ conf.files.global # <<>> /\ conf.files.project = <<>>
    /\ resolved.result.ignore = PyList(<<<<"E","1">>, <<"E","3">>>>)
    /\ resolved.result.pep8_max_line_length = PyIntVal(90)
    /\ resolved.result.select = PyList(<<<<"E">>>>)
    /\ resolved.result.ignore_files = PyIntVal(5)

-----------------------------------------------------------------------------
(* SpecLive: live mode (settings.live_mode is on). on_modified calls        *)
(* delayed_lint, which notes time.time() for the view and gives a callback  *)
(* to set_timeout; the callback calls do_lint when the view's noted time    *)
(* is still the one it was created with. time.time() is the system clock:   *)
(* two readings with no tick of the clock between them are equal.           *)

MaxMods == 3          \* modifications of the views
MaxClock == 3         \* ticks of the system clock

\* settings.live_mode_lint_delay, in ticks of the clock
LiveDelay == 2

\* the view settings do_lint resolves for the views
LiveViewSettings ==
    [select |-> <<>>, ignore |-> <<>>, python_interpreter |-> "internal"]

InitLive ==
    /\ LiveIdle
    /\ LintIdle
    /\ WireIdle
    /\ SettingsIdle
    /\ RegionIdle
    /\ UiIdle
    /\ EditorIdle

\* the system clock goes on
Tick ==
    /\ clock < MaxClock
    /\ clock' = clock + 1
    /\ UNCHANGED <<latest_keypresses, pending, launched>>
    /\ UNCHANGED <<regionVars, editorVars, lintVars, wireVars, settingsVars, uiVars>>

\* on_modified(view) -> delayed_lint(view)
OnModified(v) ==
    /\ Len(pending) < MaxMods
    /\ latest_keypresses' = (v :> clock) @@ latest_keypresses
    /\ pending' = Append(pending,
            [view |-> v, keypress_time |-> clock, due |-> clock + LiveDelay,
             state |-> "waiting", seen |-> 0])
    /\ UNCHANGED <<clock, launched>>
    /\ UNCHANGED <<regionVars, editorVars, lintVars, wireVars, settingsVars, uiVars>>

\* the callback of the i-th delayed_lint runs: the timeouts run in the
\* order they were set, none before its delay is over
DelayedCallback(i) ==
    /\ pending[i].state = "waiting"
    /\ \A j \in 1..(i - 1) : pending[j].state # "waiting"
    /\ clock >= pending[i].due
    /\ IF latest_keypresses[pending[i].view] = pending[i].keypress_time
       THEN /\ do_lint(pending[i].view, LiveViewSettings, TRUE, MaxMods)
            /\ launched' = Append(launched, i)
            /\ pending' = [pending EXCEPT ![i].state = "launched",
                                          ![i].seen = Len(pending)]
       ELSE /\ pending' = [pending EXCEPT ![i].state = "dropped",
                                          ![i].seen = Len(pending)]
            /\ UNCHANGED launched
            /\ UNCHANGED editorVars
    /\ UNCHANGED <<clock, latest_keypresses>>
    /\ UNCHANGED <<regionVars, lintVars, wireVars, settingsVars, uiVars>>

NextLive ==
    \/ Tick
    \/ \E v \in Views : OnModified(v)
    \/ \E i \in 1..Len(pending) : DelayedCallback(i)

SpecLive == InitLive /\ [][NextLive]_vars

-----------------------------------------------------------------------------
(* Claims about live mode, checked under SpecLive.                          *)

\* when the i-th callback ran, a later modification of its view had been
\* recorded
LaterModification(i) ==
    \E j \in (i + 1)..pending[i].seen : pending[j].view = pending[i].view

\* C20 as stated: a callback that ran launched a lint exactly when no later
\* modification of its view had been recorded: of a burst of modifications
\* of one view only the last launches a lint, and modifications of other
\* views cancel nothing.
C20_Debounce ==
    \A i \in 1..Len(pending) :
        pending[i].state # "waiting" =>
            (pending[i].state = "launched" <=> ~LaterModification(i))

\* C20 failing state: view 1 was modified twice with no tick of the clock
\* between; both callbacks found their own time noted and both called
\* do_lint
C20_Witness ==
    /\ Len(pending) = 2
    /\ pending[1].view = 1 /\ pending[2].view = 1
    /\ pending[1].keypress_time = pending[2].keypress_time
    /\ pending[1].state = "launched" /\ pending[1].seen = 2
    /\ pending[2].state = "launched"
    /\ launched = <<1, 2>>
    /\ Len(async_queue) = 2

\* with a tick of the clock between any two modifications of a view the
\* callbacks do as the claim says
C20_DistinctReadings ==
    (\A i, j \in 1..Len(pending) :
        (i < j /\ pending[i].view = pending[j].view)
            => pending[i].keypress_time < pending[j].keypress_time)
    => C20_Debounce

-----------------------------------------------------------------------------
(* SpecGlyph: error_region applied to the codes whose branch looks for a    *)
(* glyph, an operator or a comparison idiom at the reported column.         *)

\* E502 the backslash is redundant between brackets
Msg_E502 ==
    <<"E","5","0","2"," ","t","h","e"," ","b","a","c","k","s","l","a","s","h",
      " ","i","s"," ","r","e","d","u","n","d","a","n","t"," ","b","e","t","w",
      "e","e","n"," ","b","r","a","c","k","e","t","s">>
\* E703 statement ends with a semicolon
Msg_E703 ==
    <<"E","7","0","3"," ","s","t","a","t","e","m","e","n","t"," ","e","n","d",
      "s"," ","w","i","t","h"," ","a"," ","s","e","m","i","c","o","l","o",
      "n">>
\* W603 '<>' is deprecated, use '!='
Msg_W603 ==
    <<"W","6","0","3"," ","'","<",">","'"," ","i","s"," ","d","e","p","r","e",
      "c","a","t","e","d",","," ","u","s","e"," ","'","!","=","'">>
\* E711 comparison to None should be 'if cond is None:'
Msg_E711 ==
    <<"E","7","1","1"," ","c","o","m","p","a","r","i","s","o","n"," ","t","o",
      " ","N","o","n","e"," ","s","h","o","u","l","d"," ","b","e"," ","'","i",
      "f"," ","c","o","n","d"," ","i","s"," ","N","o","n","e",":","'">>
\* E712 comparison to True should be 'if cond is True:' or 'if cond:'
Msg_E712 ==
    <<"E","7","1","2"," ","c","o","m","p","a","r","i","s","o","n"," ","t","o",
      " ","T","r","u","e"," ","s","h","o","u","l","d"," ","b","e"," ","'","i",
      "f"," ","c","o","n","d"," ","i","s"," ","T","r","u","e",":","'"," ","o",
      "r"," ","'","i","f"," ","c","o","n","d",":","'">>
\* E713 test for membership should be 'not in'
Msg_E713 ==
    <<"E","7","1","3"," ","t","e","s","t"," ","f","o","r"," ","m","e","m","b",
      "e","r","s","h","i","p"," ","s","h","o","u","l","d"," ","b","e"," ","'",
      "n","o","t"," ","i","n","'">>
\* E714 test for object identity should be 'is not'
Msg_E714 ==
    <<"E","7","1","4"," ","t","e","s","t"," ","f","o","r"," ","o","b","j","e",
      "c","t"," ","i","d","e","n","t","i","t","y"," ","s","h","o","u","l","d",
      " ","b","e"," ","'","i","s"," ","n","o","t","'">>
\* E721 do not compare types, use 'isinstance()'
Msg_E721 ==
    <<"E","7","2","1"," ","d","o"," ","n","o","t"," ","c","o","m","p","a","r",
      "e"," ","t","y","p","e","s",","," ","u","s","e"," ","'","i","s","i","n",
      "s","t","a","n","c","e","(",")","'">>
\* x == None
Line_None ==
    <<"x"," ","=","="," ","N","o","n","e">>
\* if x != True:
Line_True ==
    <<"i","f"," ","x"," ","!","="," ","T","r","u","e",":">>
\* not x in y
Line_NotIn ==
    <<"n","o","t"," ","x"," ","i","n"," ","y">>
\* if not x is y:
Line_NotIs ==
    <<"i","f"," ","n","o","t"," ","x"," ","i","s"," ","y",":">>
\* x == type(y)
Line_Type ==
    <<"x"," ","=","="," ","t","y","p","e","(","y",")">>
\* f(a,b)
Line_Comma ==
    <<"f","(","a",",","b",")">>
\* (a + \
Line_Backslash ==
    <<"(","a"," ","+"," ","\\">>
\* x = 1;
Line_Semicolon ==
    <<"x"," ","="," ","1",";">>
\* a <> b
Line_Diamond ==
    <<"a"," ","<",">"," ","b">>

\* the longest operator line drawn from OperatorAlphabet
MaxOperLen == 3
\* two characters operators are made of and a name character
OperatorAlphabet == {"<", "=", "o"}
GlyphLineTexts ==
    {Line_None, Line_True, Line_NotIn, Line_NotIs, Line_Type, Line_Comma,
     Line_Backslash, Line_Semicolon, Line_Diamond}
    \cup SeqsUpTo(OperatorAlphabet, MaxOperLen)
GlyphMessages ==
    {Msg_E225, Msg_E231, Msg_E502, Msg_E703, Msg_W603, Msg_E711, Msg_E712,
     Msg_E713, Msg_E714, Msg_E721}

InitGlyph ==
    /\ \E t \in GlyphLineTexts, nl \in LineTerminators :
          /\ full_line_text = t \o nl
          /\ error_col \in 0..(Len(t) + 1)
    /\ line_point \in RegionLinePoints
    /\ error_msg \in GlyphMessages
    /\ region = NotCalled
    /\ EditorIdle
    /\ EngineIdle

NextGlyph == CallErrorRegion

SpecGlyph == InitGlyph /\ [][NextGlyph]_vars

-----------------------------------------------------------------------------
(* Claims about the glyph, idiom and operator branches, under SpecGlyph.    *)

CompareCodes == {Code("E", n) : n \in {711, 712, 713, 714, 721}}
\* the regular expression the branch of the code searches with
CompareRegex(error_code) ==
    CASE error_code \in {Code("E", 711), Code("E", 712)} -> COMPARE_SINGLETON_REGEX
      [] error_code \in {Code("E", 713), Code("E", 714)} -> COMPARE_NEGATIVE_REGEX
      [] OTHER -> COMPARE_TYPE_REGEX
\* what the expression of the call's code finds in the line from the column on
ArgMatch == Search(CompareRegex(ArgCode), SliceFrom(ArgLine, error_col))

\* C21 as stated: for E711, E712, E713, E714 and E721 the region is exactly
\* the span the code's regular expression matches in the remainder of the
\* line from the column on: it starts where the match starts and ends where
\* the match ends; without a match the region is the whole line.
C21_MatchedSpan ==
    (Called /\ ArgCode \in CompareCodes /\ error_col <= ArgLength) =>
        region = IF ArgMatch = NoMatch
                 THEN WholeLine(ArgLine, line_point)
                 ELSE Span(line_point + error_col + ArgMatch.start,
                           line_point + error_col + ArgMatch.end)

\* E711 on `x == None`, column 0: the match is `== None` at 2..9
C21_Witness ==
    /\ Returned
    /\ ArgCode = Code("E", 711)
    /\ ArgLine = Line_None
    /\ error_col = 0
    /\ line_point = 0
    /\ ArgMatch # NoMatch
    /\ ArgMatch.start = 2
    /\ region = Span(0, 7)

\* For E711, E712 and E721 the region is the matched span whenever the match
\* starts at the column, and the whole line when there is no match.
C21_MatchAtColumn ==
    (/\ Called
     /\ ArgCode \in CompareCodes \ {Code("E", 713), Code("E", 714)}
     /\ error_col <= ArgLength
     /\ ArgMatch # NoMatch => ArgMatch.start = 0) =>
        region = IF ArgMatch = NoMatch
                 THEN WholeLine(ArgLine, line_point)
                 ELSE Span(line_point + error_col,
                           line_point + error_col + ArgMatch.end)

GlyphCodes == {Code("E", 231), Code("E", 502), Code("E", 703), Code("W", 603)}
\* the length of the code's glyph standing at the column; 0 if it does not
GlyphLengthAt(error_code, line_text, col) ==
    LET glyphs == CASE error_code = Code("E", 231) -> {",", ";", ":"}
                    [] error_code = Code("E", 502) -> {"\\"}
                    [] OTHER -> {";"}
    IN  IF error_code = Code("W", 603)
        THEN IF StartsWith(SliceFrom(line_text, col), <<"<", ">">>) THEN 2 ELSE 0
        ELSE IF col < Len(line_text) /\ line_text[col + 1] \in glyphs THEN 1 ELSE 0

\* C22 as stated: for E231, E502, E703 and W603, when the glyph of the code
\* stands at the column the region is exactly the glyph; when it does not,
\* for any column value, the region is the whole line.
C22_GlyphOrWholeLine ==
    (Called /\ ArgCode \in GlyphCodes) =>
        LET n == GlyphLengthAt(ArgCode, ArgLine, error_col)
        IN  region = IF n > 0
                     THEN Span(line_point + error_col, line_point + error_col + n)
                     ELSE WholeLine(ArgLine, line_point)

\* E703 on `x = 1;` with the column just past the last character
C22_Witness ==
    /\ Called
    /\ ArgCode = Code("E", 703)
    /\ ArgLine = Line_Semicolon
    /\ error_col = ArgLength
    /\ region = Raised("IndexError")

\* With the column inside the line the glyph branches behave as stated.
C22_ColumnInLine ==
    (Called /\ ArgCode \in GlyphCodes /\ error_col < ArgLength) =>
        LET n == GlyphLengthAt(ArgCode, ArgLine, error_col)
        IN  region = IF n > 0
                     THEN Span(line_point + error_col, line_point + error_col + n)
                     ELSE WholeLine(ArgLine, line_point)

\* the length of the longest operator among those with an index in hits
LongestOperator(hits) ==
    IF hits = {} THEN NotFound
    ELSE CHOOSE n \in {Len(OPERATORS[k]) : k \in hits} :
            \A k \in hits : Len(OPERATORS[k]) <= n
OperatorsAt(line, col) ==
    {k \in 1..Len(OPERATORS) : StartsWith(SliceFrom(line, col), OPERATORS[k])}
OperatorsBefore(line, col) ==
    {k \in 1..Len(OPERATORS) : EndsWith(SliceTo(line, col), OPERATORS[k])}

\* C23 as stated: for every line and every column in 0..len(line),
\* operator_next returns the length of the longest operator line[col:]
\* starts with and operator_prev the length of the longest operator
\* line[:col] ends with; each returns None exactly when there is none.
C23_LongestOperator ==
    (Called /\ ArgCode = Code("E", 225) /\ error_col <= ArgLength) =>
        /\ operator_next(ArgLine, error_col)
              = LongestOperator(OperatorsAt(ArgLine, error_col))
        /\ operator_prev(ArgLine, error_col)
              = LongestOperator(OperatorsBefore(ArgLine, error_col))

\* E225 on `o==` with column 2: `o=` ends with `=`, operator_prev gives None
C23_Witness ==
    /\ Returned
    /\ ArgCode = Code("E", 225)
    /\ ArgLine = <<"o", "=", "=">>
    /\ error_col = 2
    /\ line_point = 0
    /\ operator_next(ArgLine, error_col) = 1
    /\ operator_prev(ArgLine, error_col) = NotFound
    /\ region = Span(2, 3)

\* operator_next is the longest operator at the column, for every column;
\* operator_prev is the longest operator before it when the column is 0 or
\* at least the length of the longest operator.
C23_NextLongest ==
    (Called /\ ArgCode = Code("E", 225) /\ error_col <= ArgLength) =>
        /\ operator_next(ArgLine, error_col)
              = LongestOperator(OperatorsAt(ArgLine, error_col))
        /\ (error_col = 0 \/ error_col >= Len(OPERATORS[1])) =>
              operator_prev(ArgLine, error_col)
                 = LongestOperator(OperatorsBefore(ArgLine, error_col))

-----------------------------------------------------------------------------
(* The order of the diagnostics lint returns, checked under SpecLint.       *)

\* the place of a diagnostic's checker in the order lint runs them: pep8,
\* pep257, compile or pyflakes, naming, mccabe
CheckerRank(e) ==
    CASE e[3] = Msg_E901 -> 3
      [] e[3][1] \in {"E", "W"} -> 1
      [] e[3][1] = "D" -> 2
      [] e[3][1] = "F" -> 3
      [] e[3][1] = "N" -> 4
      [] OTHER -> 5

\* C24: what lint returns is ordered by line ascending, then by column
\* ascending, in numeric order; diagnostics with the same line and column
\* stand in the order their checkers ran: style, docstring, logic, naming,
\* complexity.
C24_Ordered ==
    \A c \in 1..Len(calls) :
        Returned_(calls[c]) =>
            \A i, j \in 1..Len(calls[c].result) :
                i < j =>
                    LET e == calls[c].result[i]
                        f == calls[c].result[j]
                    IN  \/ KeyLess(e, f)
                        \/ /\ e[1] = f[1]
                           /\ e[2] = f[2]
                           /\ CheckerRank(e) <= CheckerRank(f)

\* uses_foo.py with every checker on: four checkers report (1, 0), two
\* report (1, 4), and line 12 comes after line 2
C24_Witness ==
    /\ Len(calls) = 2
    /\ calls[1].lines = Src_UsesFoo /\ calls[1].settings = Set_Docstrings
    /\ calls[1].fault = "none"
    /\ calls[1].result =
            <<<<1, 0, Msg_E401>>, <<1, 0, Msg_D100>>, <<1, 0, Msg_F401_os>>,
              <<1, 0, Msg_C901_f>>, <<1, 4, Msg_E225>>, <<1, 4, Msg_N802>>,
              <<2, 4, Msg_F821_foo>>>>
    /\ calls[2].lines = Src_UsesFoo /\ calls[2].settings = Set_Default
    /\ calls[2].fault = "none"
    /\ calls[2].result =
            <<<<1, 0, Msg_E401>>, <<1, 0, Msg_F401_os>>, <<1, 4, Msg_E225>>,
              <<1, 4, Msg_N802>>, <<2, 4, Msg_F821_foo>>, <<12, 79, Msg_E501>>>>

-----------------------------------------------------------------------------
(* SpecCursor: the caret of a view, moved by the user, by the quick panel   *)
(* of a LintReport and by Flake8NextErrorCommand, and the 'flake8-tip'      *)
(* status that follows it, while lint runs complete.                        *)

\* view.rowcol(point)[0]: the row holding the point
Row(text, point) ==
    Cardinality({i \in 1..Min(point, Len(text)) : text[i] = "\n"})
\* view.text_point(row, col)
TextPointAt(text, row, col) == Min(TextPoint(text, row) + col, Len(text))

\* SublimeView.get_current_line(view): None without a selection
get_current_line(sel, text) ==
    IF sel = <<>> THEN PyNone ELSE PyIntVal(Row(text, sel[1]))

\* sep.join(items)
RECURSIVE JoinWith(_, _)
JoinWith(sep, items) ==
    IF items = <<>> THEN <<>>
    ELSE IF Len(items) = 1 THEN items[1]
    ELSE items[1] \o sep \o JoinWith(sep, Tail(items))

\* 'flake8: %s' % ' / '.join(errors)
StatusTip(errors) ==
    <<"f", "l", "a", "k", "e", "8", ":", " ">>
        \o JoinWith(<<" ", "/", " ">>, errors)

\* SublimeStatusBar.update(view): the statuses it leaves
StatusBarUpdate(v, status, index, sel, text) ==
    LET current_line == get_current_line(sel, text)
    IN  IF v \notin DOMAIN index THEN status
        ELSE IF sel = <<>> THEN status
        ELSE IF current_line = PyNone THEN status
        ELSE IF current_line.v \in DOMAIN index[v]
        THEN [status EXCEPT ![v] = StatusTip(index[v][current_line.v])]
        ELSE [status EXCEPT ![v] = <<>>]

\* error = self.errors_list[item_selected]
MutSelectedError(rep, item_selected) == rep.args[item_selected + 1]
SelectedError(rep, item_selected) == rep.errors_list[item_selected + 1]

(* LintReport.error_selected(item_selected): the quick panel of the view's  *)
(* report calls back with the index of the chosen row, or -1.               *)
ErrorSelected(v, item_selected) ==
    /\ report[v].state = "built"
    /\ report[v].panel
    /\ item_selected \in -1..(Len(report[v].errors_to_show) - 1)
    /\ report' = [report EXCEPT ![v].panel = FALSE]
    /\ IF item_selected = -1
       THEN UNCHANGED <<view_sel, view_status>>
       ELSE LET error == SelectedError(report[v], item_selected)
                region_begin == TextPointAt(view_text[v], error[1] - 1, error[2])
            IN  /\ view_sel' = [view_sel EXCEPT ![v] = <<region_begin>>]
                /\ view_status' =
                        StatusBarUpdate(v, view_status, ERRORS_IN_VIEWS,
                                        <<region_begin>>, view_text[v])
    /\ UNCHANGED <<view_text, view_attrs, settings, async_queue, running,
                   timers, view_regions, ERRORS_IN_VIEWS, logged>>
    /\ UNCHANGED <<last_selected_line, loadVars>>
    /\ UNCHANGED <<regionVars, lintVars, wireVars, settingsVars, liveVars>>

\* sorted(view_errors.keys())
SortedKeys(index) ==
    LET keys == DOMAIN index
    IN  [p \in 1..Cardinality(keys) |->
            CHOOSE k \in keys : Cardinality({j \in keys : j < k}) = p - 1]

\* the loop of Flake8NextErrorCommand.run from its pass i on
RECURSIVE NextLineLoop(_, _, _, _)
MutNextLineLoop(keys, i, current_line, next_line) == keys[1]
NextLineLoop(keys, i, current_line, next_line) ==
    IF i > Len(keys) THEN next_line
    ELSE LET first == IF i = 1 THEN keys[i] ELSE next_line
         IN  IF keys[i] > current_line THEN keys[i]
             ELSE NextLineLoop(keys, i + 1, current_line, first)

(* Flake8NextErrorCommand.run                                               *)
NextError(v) ==
    /\ LET current_line == get_current_line(view_sel[v], view_text[v])
       IN  IF v \notin DOMAIN ERRORS_IN_VIEWS THEN UNCHANGED view_sel
           ELSE IF DOMAIN ERRORS_IN_VIEWS[v] = {} THEN UNCHANGED view_sel
           ELSE IF view_sel[v] = <<>> THEN UNCHANGED view_sel
           ELSE IF current_line = PyNone THEN UNCHANGED view_sel
           ELSE LET next_line ==
                        NextLineLoop(SortedKeys(ERRORS_IN_VIEWS[v]), 1,
                                     current_line.v, PyNone)
                    point == TextPoint(view_text[v], next_line)
                IN  view_sel' = [view_sel EXCEPT ![v] = <<point>>]
    /\ UNCHANGED <<editorVars, last_selected_line, loadVars>>
    /\ UNCHANGED <<regionVars, lintVars, wireVars, settingsVars, liveVars>>

(* The user moves the selection of a view and the editor calls              *)
(* Flake8LintBackground.on_selection_modified(view).                        *)
OnSelectionModified(v, sel) ==
    /\ sel # view_sel[v]
    /\ view_sel' = [view_sel EXCEPT ![v] = sel]
    /\ LET current_line == get_current_line(sel, view_text[v])
       IN  IF view_attrs[v].is_scratch
           THEN UNCHANGED <<last_selected_line, view_status>>
           ELSE IF current_line = PyNone
           THEN IF last_selected_line # PyNone
                THEN /\ last_selected_line' = PyNone
                     /\ view_status' = [view_status EXCEPT ![v] = <<>>]
                ELSE UNCHANGED <<last_selected_line, view_status>>
           ELSE IF current_line # last_selected_line
           THEN /\ last_selected_line' = current_line
                /\ view_status' =
                        StatusBarUpdate(v, view_status, ERRORS_IN_VIEWS, sel,
                                        view_text[v])
           ELSE UNCHANGED <<last_selected_line, view_status>>
    /\ UNCHANGED <<view_text, view_attrs, settings, async_queue, running,
                   timers, report, view_regions, ERRORS_IN_VIEWS, logged>>
    /\ UNCHANGED loadVars
    /\ UNCHANGED <<regionVars, lintVars, wireVars, settingsVars, liveVars>>

\* lints waiting in the editor's queue under SpecCursor
MaxWaiting == 1
\* two points of the first row and the start of the second, or no
\* selection at all
CursorSelections(v) ==
    {<<>>, <<0>>, <<2>>, <<TextPoint(view_text[v], 1)>>}
\* a lint run from a command: W2 codes are ignored, the panel is shown
CursorJobKind ==
    [view_settings |-> [select |-> <<>>, ignore |-> <<<<"W", "2">>>>,
                        python_interpreter |-> "internal"],
     quiet |-> FALSE]
\* what lint may return for the buffers of the two views
CursorResults ==
    {<<>>,
     <<<<1, 0, Msg_F401_os>>, <<1, 9, Msg_W291>>, <<2, 0, Msg_E111>>,
       <<2, 2, Msg_E501>>>>}

InitCursor ==
    /\ view_text = [v \in Views |-> IF v = 1 THEN Buf_Plain ELSE Buf_NoqaLine2]
    /\ view_attrs = [v \in Views |->
            [is_scratch |-> FALSE, has_file_name |-> TRUE, is_python |-> TRUE,
             ignored |-> FALSE]]
    /\ settings = [highlight |-> TRUE, highlight_type |-> "error",
                   gutter_marks |-> "theme-simple", popup |-> TRUE,
                   blink_gutter_marks_on_success |-> FALSE]
    /\ async_queue = <<>>
    /\ running = NoJob
    /\ timers = {}
    /\ report = [v \in Views |-> NoReport]
    /\ view_regions = [v \in Views |-> NoRegions]
    /\ view_status = [v \in Views |-> <<>>]
    /\ ERRORS_IN_VIEWS = <<>>
    /\ logged = [v \in Views |-> ""]
    /\ RegionIdle
    /\ LintIdle
    /\ WireIdle
    /\ SettingsIdle
    /\ LiveIdle
    /\ UiIdle

NextCursor ==
    \/ \E v \in Views :
            DoLint(v, CursorJobKind.view_settings, CursorJobKind.quiet, MaxWaiting)
    \/ AsyncLintStart(CursorResults)
    \/ AsyncLintFinish
    \/ \E v \in Views : \E item \in -1..3 : ErrorSelected(v, item)
    \/ \E v \in Views : NextError(v)
    \/ \E v \in Views : \E sel \in CursorSelections(v) : OnSelectionModified(v, sel)

SpecCursor == InitCursor /\ [][NextCursor]_vars

-----------------------------------------------------------------------------
(* Claims about the quick panel, the next-error command and the status bar, *)
(* checked under SpecCursor.                                                *)

\* a is b with some of its entries left out
IsSubsequence(a, b) ==
    \E pick \in [1..Len(a) -> 1..Len(b)] :
        /\ \A i \in 1..Len(a) : a[i] = b[pick[i]]
        /\ \A i \in 1..(Len(a) - 1) : pick[i] < pick[i + 1]
\* the rows of the panel and the filtered list of a built report agree
PanelAligned(rep) ==
    /\ Len(rep.errors_to_show) = Len(rep.errors_list)
    /\ IsSubsequence(rep.errors_list, rep.args)
    /\ \A i \in 1..Len(rep.errors_list) :
          /\ rep.errors_to_show[i].text = rep.errors_list[i][3]
          /\ rep.errors_to_show[i].line = rep.errors_list[i][1]
\* the caret of the view stands at the 1-based line and the column
CaretAt(sel, text, line, col) ==
    /\ Len(sel) = 1
    /\ Row(text, sel[1]) = line - 1
    /\ sel[1] - TextPoint(text, line - 1) = col

\* C25: after prepare_errors the rows of the panel and the filtered
\* errors_list have the same length and order, row i built from diagnostic
\* i; choosing row i moves the caret to the line and column of that
\* diagnostic, and choosing -1 leaves the caret and the status as they are.
C25_PanelSelection ==
    /\ [](\A v \in Views : report[v].state = "built" => PanelAligned(report[v]))
    /\ [][\A v \in Views : \A item \in -1..3 :
            ErrorSelected(v, item) =>
                IF item = -1
                THEN view_sel' = view_sel /\ view_status' = view_status
                ELSE /\ CaretAt(view_sel'[v], view_text[v],
                                report[v].errors_list[item + 1][1],
                                report[v].errors_list[item + 1][2])
                     /\ \A w \in Views \ {v} : view_sel'[w] = view_sel[w]]_vars

\* view 1 after a run that dropped the W291 finding of line 1: the second
\* row of the panel was chosen and the caret is at line 2, column 0
C25_Witness ==
    /\ report[1].state = "built"
    /\ ~report[1].panel
    /\ Len(report[1].args) = 4
    /\ report[1].errors_list =
            <<<<1, 0, Msg_F401_os>>, <<2, 0, Msg_E111>>, <<2, 2, Msg_E501>>>>
    /\ Len(report[1].errors_to_show) = 3
    /\ view_sel[1] = <<10>>
    /\ view_status[1] = StatusTip(<<Msg_E111, Msg_E501>>)

\* the line the next-error command is to go to: the smallest line with
\* findings above the current one, else the smallest line with findings
NextErrorLine(lines, current) ==
    LET above == {k \in lines : k > current}
        from == IF above # {} THEN above ELSE lines
    IN  CHOOSE k \in from : \A j \in from : k <= j

\* C26: Flake8NextErrorCommand moves the caret to the smallest line with
\* findings that is strictly greater than the current line, and wraps to
\* the smallest line with findings when there is none; without an index,
\* with an empty index or without a selection the caret is unchanged.
C26_NextError ==
    [][\A v \in Views :
        NextError(v) =>
            IF \/ v \notin DOMAIN ERRORS_IN_VIEWS
               \/ DOMAIN ERRORS_IN_VIEWS[v] = {}
               \/ view_sel[v] = <<>>
            THEN view_sel' = view_sel
            ELSE /\ CaretAt(view_sel'[v], view_text[v],
                            NextErrorLine(DOMAIN ERRORS_IN_VIEWS[v],
                                          Row(view_text[v], view_sel[v][1])) + 1,
                            0)
                 /\ \A w \in Views \ {v} : view_sel'[w] = view_sel[w]]_vars

\* view 1 has findings on rows 0 and 1 and the caret on row 1, column 0,
\* where only the command or the panel puts it
C26_Witness ==
    /\ 1 \in DOMAIN ERRORS_IN_VIEWS
    /\ DOMAIN ERRORS_IN_VIEWS[1] = {0, 1}
    /\ view_sel[1] = <<10>>
    /\ report[1].state = "built"
    /\ report[1].panel
    /\ last_selected_line = PyNone

\* the status the claim requires for a caret on a row of the view
TipOfLine(index, v, row) ==
    IF v \in DOMAIN index /\ row \in DOMAIN index[v]
    THEN StatusTip(index[v][row])
    ELSE <<>>

\* C28 as stated: whenever the selection of a non-scratch view comes to
\* rest on a line, the 'flake8-tip' status of the view shows the findings
\* of that line joined by ' / ', or is cleared when the line has none.
C28_StatusTracksLine ==
    [][\A v \in Views : \A sel \in CursorSelections(v) :
        (OnSelectionModified(v, sel) /\ sel # <<>> /\ ~view_attrs[v].is_scratch)
            => view_status'[v]
                 = TipOfLine(ERRORS_IN_VIEWS, v, Row(view_text[v], sel[1]))]_vars

\* C28 failing state: the caret of view 2 was moved within row 0, which has
\* a finding, after the caret of view 1 had been on row 0: no status
C28_Witness ==
    /\ 2 \in DOMAIN ERRORS_IN_VIEWS
    /\ 0 \in DOMAIN ERRORS_IN_VIEWS[2]
    /\ view_sel[2] = <<2>>
    /\ view_sel[1] = <<2>>
    /\ 1 \notin DOMAIN ERRORS_IN_VIEWS
    /\ last_selected_line = PyIntVal(0)
    /\ view_status[2] = <<>>
    /\ async_queue = <<>> /\ running = NoJob

\* A selection event on a line other than the one the listener recorded
\* last, for whichever view, sets the status of the view as stated.
C28_LineChanges ==
    [][\A v \in Views : \A sel \in CursorSelections(v) :
        (/\ OnSelectionModified(v, sel)
         /\ sel # <<>>
         /\ PyIntVal(Row(view_text[v], sel[1])) # last_selected_line)
            => view_status'[v]
                 = TipOfLine(ERRORS_IN_VIEWS, v, Row(view_text[v], sel[1]))]_vars

-----------------------------------------------------------------------------
(* The clean-up of a lint run, checked under Spec.                          *)

\* do_lint returns before it queues async_lint
SkippedByDoLint(v) ==
    \/ view_attrs[v].is_scratch
    \/ ~view_attrs[v].has_file_name
    \/ ~view_attrs[v].is_python
    \/ view_attrs[v].ignored
\* the regions the LintReport of the view put under a key
ProducedBy(rep, key, text) ==
    IF rep.state # "built" THEN <<>>
    ELSE IF key = "success"
    THEN IF rep.errors_list = <<>> THEN ViewLines(text) ELSE <<>>
    ELSE IF rep.errors_list # <<>> THEN rep.regions[key] ELSE <<>>

\* C27: a do_lint that skips the view (scratch, no file name, not Python,
\* ignored file), an async_lint that stops on the whole-file noqa marker and
\* an async_lint that completes each leave the view without status and
\* with no region other than those the completed run itself produced.
\* (An async_lint call that starts and leaves no job running stopped on the
\* marker; a running job ends when async_lint has built its LintReport.)
C27_CleanSlate ==
    [][\A v \in Views :
        /\ (/\ \E kind \in EditorJobKinds :
                    DoLint(v, kind.view_settings, kind.quiet, MaxQueue)
            /\ SkippedByDoLint(v))
                => view_regions'[v] = NoRegions /\ view_status'[v] = <<>>
        /\ (/\ AsyncLintRuns
            /\ Head(async_queue).view = v
            /\ running' = NoJob)
                => view_regions'[v] = NoRegions /\ view_status'[v] = <<>>
        /\ (running # NoJob /\ running' = NoJob /\ running.view = v)
                => /\ view_status'[v] = <<>>
                   /\ \A key \in RegionKeys :
                        view_regions'[v][key]
                            \in {<<>>, ProducedBy(report'[v], key, view_text[v])}
                   /\ \A key \in RegionKeys :
                        ProducedBy(report'[v], key, view_text[v]) = <<>>
                            => view_regions'[v][key] = <<>>]_vars

\* view 1 still has the report of a run that highlighted findings; a later
\* run stopped on the whole-file noqa marker and the regions are gone
C27_Witness ==
    /\ report[1].state = "built"
    /\ report[1].is_highlight
    /\ report[1].regions["critical"] # <<>>
    /\ HasFileMarker(view_text[1])
    /\ logged[1] = LogSkipFile
    /\ view_regions[1] = NoRegions
    /\ view_status[1] = <<>>
    /\ running = NoJob

-----------------------------------------------------------------------------
(* SpecLoad: lint on load.  on_load and plugin_loaded call on_file_load,    *)
(* which polls with set_timeout until the view is loaded and has a window,  *)
(* then hands over to wait_and_lint, which polls while the view is a        *)
(* preview.  The editor loads, shows, activates and closes views meanwhile. *)

\* the calls of on_file_load: from on_load(view), or 0 for the call of
\* plugin_loaded, which passes no view
LoadTargets == Views \cup {0}

\* what a call leaves behind: the callback it scheduled ("retry", "wait")
\* or how it ended, its view, and whether it called do_lint
Outcome(phase, view, lint_called) ==
    [phase |-> phase, view |-> view, lint |-> lint_called]

\* sublime.active_window()
HasActiveWindow(loads) == \E v \in Views : loads[v].window
\* window.active_view(), 0 for None
ActiveView(loads) ==
    IF \E v \in Views : loads[v].active
    THEN CHOOSE v \in Views : loads[v].active
    ELSE 0

\* view.window().active_view().id() == view.id()
MutIsActiveView(loads, view) == TRUE
IsActiveView(loads, view) == loads[view].active

\* Flake8Lint.wait_and_lint(view)
wait_and_lint(view, loads) ==
    IF ~HasActiveWindow(loads) THEN Outcome("no window", view, FALSE)
    ELSE IF ~loads[view].listed THEN Outcome("wait", view, FALSE)
    ELSE Outcome("lint", view, TRUE)

\* Flake8Lint.on_file_load(view, retry)
on_file_load(view, retry, plugin, loads) ==
    IF ~(plugin.set_ruler_guide \/ plugin.lint_on_load)
    THEN Outcome("off", view, FALSE)
    ELSE IF ~retry THEN Outcome("retry", view, FALSE)
    ELSE IF view = 0 /\ ~HasActiveWindow(loads)
    THEN Outcome("no window", view, FALSE)
    ELSE IF view = 0 /\ ActiveView(loads) = 0
    THEN Outcome("no view", view, FALSE)
    ELSE LET v == IF view = 0 THEN ActiveView(loads) ELSE view
         IN  IF loads[v].loading THEN Outcome("retry", v, FALSE)
             ELSE IF ~loads[v].window THEN Outcome("retry", v, FALSE)
             ELSE IF ~IsActiveView(loads, v) THEN Outcome("forgot", v, FALSE)
             ELSE IF plugin.lint_on_load THEN wait_and_lint(v, loads)
             ELSE Outcome("ruler", v, FALSE)

\* the frame of the actions of SpecLoad that run plugin code; every
\* sublime.set_timeout sets a new timer, told from the one before it by
\* the timer bit
LoadCall(t, out) ==
    /\ load_poll' = [load_poll EXCEPT ![t] =
            [phase |-> out.phase, view |-> out.view,
             timer |-> IF out.phase \in {"retry", "wait"}
                       THEN 1 - load_poll[t].timer
                       ELSE load_poll[t].timer]]
    /\ IF out.lint
       THEN do_lint(out.view, LiveViewSettings, FALSE, Cardinality(LoadTargets))
       ELSE UNCHANGED editorVars
    /\ UNCHANGED <<view_load, cursorVars>>
    /\ UNCHANGED <<regionVars, lintVars, wireVars, settingsVars, liveVars>>

(* Flake8LintBackground.on_load(view), or plugin_loaded for t = 0: the      *)
(* first call of on_file_load. The editor sends on_load for a view that is  *)
(* open.                                                                    *)
OnLoad(t) ==
    /\ load_poll[t].phase = "none"
    /\ t \in Views => ~view_load[t].closed
    /\ LoadCall(t, on_file_load(t, FALSE, settings, view_load))

(* The 100 ms timeout: on_file_load(view, True).                            *)
OnFileLoadRetry(t) ==
    /\ load_poll[t].phase = "retry"
    /\ LoadCall(t, on_file_load(load_poll[t].view, TRUE, settings, view_load))

(* The 300 ms timeout: wait_and_lint(view).                                 *)
WaitAndLint(t) ==
    /\ load_poll[t].phase = "wait"
    /\ LoadCall(t, wait_and_lint(load_poll[t].view, view_load))

\* the frame of the editor's own steps
EditorStep(v, state) ==
    /\ view_load' = [w \in Views |->
            IF w = v THEN state
            ELSE IF state.active THEN [view_load[w] EXCEPT !.active = FALSE]
            ELSE view_load[w]]
    /\ UNCHANGED <<load_poll, cursorVars, editorVars>>
    /\ UNCHANGED <<regionVars, lintVars, wireVars, settingsVars, liveVars>>

(* The editor has read the file.                                            *)
FinishLoading(v) ==
    /\ view_load[v].loading
    /\ ~view_load[v].closed
    /\ EditorStep(v, [view_load[v] EXCEPT !.loading = FALSE])

(* The editor puts the view into a window, as a preview with the focus.     *)
AttachWindow(v) ==
    /\ ~view_load[v].window
    /\ ~view_load[v].closed
    /\ EditorStep(v, [view_load[v] EXCEPT !.window = TRUE, !.active = TRUE])

(* The preview becomes a tab: the view enters window.views().               *)
Promote(v) ==
    /\ view_load[v].window
    /\ ~view_load[v].listed
    /\ EditorStep(v, [view_load[v] EXCEPT !.listed = TRUE])

(* The user switches to another view of the window.                         *)
Deactivate(v) ==
    /\ view_load[v].active
    /\ EditorStep(v, [view_load[v] EXCEPT !.active = FALSE])

(* The user switches back to the view.                                      *)
Activate(v) ==
    /\ view_load[v].window
    /\ ~view_load[v].active
    /\ EditorStep(v, [view_load[v] EXCEPT !.active = TRUE])

(* The user closes the view.                                                *)
Close(v) ==
    /\ ~view_load[v].closed
    /\ EditorStep(v, [loading |-> FALSE, window |-> FALSE, active |-> FALSE,
                      listed |-> FALSE, closed |-> TRUE])

\* a file being opened: not yet read, not yet in a window
ViewOpening ==
    [loading |-> TRUE, window |-> FALSE, active |-> FALSE, listed |-> FALSE,
     closed |-> FALSE]

InitLoad ==
    /\ view_text = [v \in Views |-> Buf_Plain]
    /\ view_attrs = [v \in Views |->
            [is_scratch |-> FALSE, has_file_name |-> TRUE, is_python |-> TRUE,
             ignored |-> FALSE]]
    /\ \E ruler, on_load \in BOOLEAN :
          settings = [highlight |-> TRUE, highlight_type |-> "error",
                      gutter_marks |-> "theme-simple", popup |-> TRUE,
                      blink_gutter_marks_on_success |-> TRUE,
                      set_ruler_guide |-> ruler, lint_on_load |-> on_load]
    /\ async_queue = <<>>
    /\ running = NoJob
    /\ timers = {}
    /\ report = [v \in Views |-> NoReport]
    /\ view_regions = [v \in Views |-> NoRegions]
    /\ view_status = [v \in Views |-> <<>>]
    /\ ERRORS_IN_VIEWS = <<>>
    /\ logged = [v \in Views |-> ""]
    /\ view_sel = [v \in Views |-> <<0>>]
    /\ last_selected_line = PyNone
    /\ view_load = [v \in Views |-> ViewOpening]
    /\ load_poll = [t \in LoadTargets |-> NotPolled]
    /\ RegionIdle
    /\ LintIdle
    /\ WireIdle
    /\ SettingsIdle
    /\ LiveIdle

NextLoad ==
    \/ \E t \in LoadTargets : OnLoad(t)
    \/ \E t \in LoadTargets : OnFileLoadRetry(t)
    \/ \E t \in LoadTargets : WaitAndLint(t)
    \/ \E v \in Views : FinishLoading(v)
    \/ \E v \in Views : AttachWindow(v)
    \/ \E v \in Views : Promote(v)
    \/ \E v \in Views : Deactivate(v)
    \/ \E v \in Views : Activate(v)
    \/ \E v \in Views : Close(v)

SpecLoad == InitLoad /\ [][NextLoad]_vars

\* timeouts expire and their callbacks run; the editor finishes reading a
\* file and shows the view, unless the view is closed; a preview does not
\* stay a preview for ever: it becomes a tab or is closed
LoadFairness ==
    /\ \A t \in LoadTargets : WF_vars(OnFileLoadRetry(t))
    /\ \A t \in LoadTargets : WF_vars(WaitAndLint(t))
    /\ \A v \in Views : WF_vars(FinishLoading(v))
    /\ \A v \in Views : WF_vars(AttachWindow(v))
    /\ \A v \in Views : WF_vars(Promote(v) \/ Close(v))

SpecLoadFair == InitLoad /\ [][NextLoad]_vars /\ LoadFairness

-----------------------------------------------------------------------------
(* Claims about lint on load, checked under SpecLoad and SpecLoadFair.      *)

\* a callback of the call is pending
Polling(t) == load_poll[t].phase \in {"retry", "wait"}
\* the step in which the call t launches its lint
LaunchesLint(t) == load_poll[t].phase # "lint" /\ load_poll'[t].phase = "lint"
\* the view is loaded, has a window and is the window's active view
ReadyAndActive(v) ==
    /\ ~view_load[v].loading
    /\ view_load[v].window
    /\ view_load[v].active

\* C29: a lint is launched on load only when lint_on_load is set, only from
\* a timeout callback and never in the load event itself, and only for a
\* view that on_file_load found loaded, with a window and active; a view
\* found loaded but not active is given up without lint or further retry;
\* with set_ruler_guide and lint_on_load both off nothing is scheduled.
C29_LoadLint ==
    [][/\ async_queue' # async_queue => \E t \in LoadTargets : LaunchesLint(t)
       /\ \A t \in LoadTargets :
            LET before == load_poll[t]
                after == load_poll'[t]
            IN  /\ LaunchesLint(t) =>
                    /\ settings.lint_on_load
                    /\ before.phase \in {"retry", "wait"}
                    /\ ~view_load[after.view].loading
                    /\ view_load[after.view].window
                    /\ before.phase = "retry" => ReadyAndActive(after.view)
                    /\ Len(async_queue') = Len(async_queue) + 1
                    /\ async_queue'[Len(async_queue')].view = after.view
                /\ (before.phase = "retry" /\ after.phase = "wait") =>
                    settings.lint_on_load /\ ReadyAndActive(after.view)
                /\ before.phase = "wait" =>
                    after.phase \in {"wait", "lint", "no window"}
                /\ (/\ before.phase = "retry"
                    /\ after # before
                    /\ before.view # 0
                    /\ ~view_load[before.view].loading
                    /\ view_load[before.view].window
                    /\ ~view_load[before.view].active) =>
                        after.phase = "forgot" /\ async_queue' = async_queue
                /\ before.phase \in {"forgot", "off"} => after = before
                /\ (/\ before.phase = "none"
                    /\ after # before
                    /\ ~settings.set_ruler_guide
                    /\ ~settings.lint_on_load) =>
                        after.phase = "off" /\ async_queue' = async_queue]_vars

\* the call for view 1 launched its lint from a callback; view 2 was found
\* loaded but not active and was given up
C29_Witness ==
    /\ settings.lint_on_load
    /\ load_poll[1].phase = "lint" /\ load_poll[1].view = 1
    /\ Len(async_queue) = 1
    /\ async_queue[1].view = 1
    /\ load_poll[2].phase = "forgot" /\ load_poll[2].view = 2
    /\ load_poll[0].phase = "none"

\* C30 as stated: the polling on load terminates: a call that has a
\* callback pending eventually ends, in a lint or in giving up, whatever
\* happens to the view.
C30_PollingEnds ==
    \A t \in LoadTargets : Polling(t) ~> ~Polling(t)

\* C30 failing state: view 1 was closed while its on_file_load callback was
\* pending; the callback finds no window and schedules itself again
C30_Witness ==
    /\ view_load[1].closed
    /\ load_poll[1].phase = "retry" /\ load_poll[1].view = 1
    /\ on_file_load(1, TRUE, settings, view_load) = Outcome("retry", 1, FALSE)

\* While no view is closed the polling of every call ends.
C30_EndsUnlessClosed ==
    \A t \in LoadTargets :
        [](\A v \in Views : ~view_load[v].closed) => (Polling(t) ~> ~Polling(t))

=============================================================================
